---- MODULE Spec2Model ----
(***************************************************************************)
(* Model of the HIR query database of shackle                              *)
(* (crates/shackle-compiler/src/hir/db.rs): the include resolver           *)
(* resolve_includes, the diagnostics aggregators all_errors and            *)
(* all_warnings, run_hir_phase, and the lowering of one model to HIR       *)
(* (crates/shackle/src/hir/lower, crates/shackle-compiler/src/hir/lower).  *)
(*                                                                         *)
(* A file reference is a pair <<dir, name>>; the file system maps every    *)
(* path to an entry (absent, unreadable, symbolic link, E-prime model or   *)
(* MiniZinc model with its list of items).                                 *)
(***************************************************************************)
EXTENDS Integers, Sequences, FiniteSets, TLC

\* ------------------------------------------------------------------ bounds
MaxIncludes == 2      \* items per MiniZinc file
MaxInputs == 2        \* length of input_models
MaxRows == 2          \* rows of a 2-D array literal
MaxCols == 2          \* members of one row
MaxMembers == 3       \* members of a 1-D array literal
MaxParams == 2        \* parameters of a function item

\* --------------------------------------------------------------- universe
Dirs == {"d1", "d2"}
UserNames == {"a", "b"}
StdlibName == "stdlib.mzn"
SolverRedefName == "solver_redefinitions.mzn"
EPrimeGlobalsName == "eprime_globals.mzn"
LibNames == {StdlibName, SolverRedefName, EPrimeGlobalsName}
\* a model given as a string: FileRef::path() is None
Inline == <<"", "inline">>
AllPaths == (Dirs \X (UserNames \cup LibNames)) \cup {Inline}

VARIABLES
    search_dirs,    \* db.include_search_dirs()
    ignore_stdlib,  \* db.ignore_stdlib()
    share_ok,       \* db.share_directory() is Ok
    fs,             \* the file system read by exists/canonicalize/db.ast
    input_models,   \* db.input_models()
    pc,             \* position of resolve_includes
    todo,           \* work stack
    seen,           \* canonical paths visited
    models,         \* models to lower
    errors,         \* errors collected
    cur,            \* the file whose items are being walked
    idx,            \* index of the next item of cur
    result,         \* value returned by resolve_includes
    diag,           \* phases whose queries report a diagnostic
    diagnostics,    \* value returned by all_errors
    reported,       \* all_errors has been evaluated
    warnings,       \* value returned by all_warnings
    warned,         \* all_warnings has been evaluated
    hir,            \* value returned by run_hir_phase
    evaluated,      \* the queries whose body has run once, and again
    requested,      \* the queries run_hir_phase asked for, in order
    ast,            \* db.ast(model) of the model lower_items is given
    next_item,      \* index of the next surface item to collect
    collector,      \* the ItemCollector of lower_items
    lowered         \* value returned by lower_items

world == <<search_dirs, ignore_stdlib, share_ok, fs, input_models, diag>>
report == <<diagnostics, reported>>
calls == <<warnings, warned, hir, evaluated, requested>>
resolver == <<pc, todo, seen, models, errors, cur, idx, result>>
lowering == <<ast, next_item, collector, lowered>>
vars == <<search_dirs, ignore_stdlib, share_ok, fs, input_models, diag,
          pc, todo, seen, models, errors, cur, idx, result,
          diagnostics, reported, warnings, warned, hir, evaluated, requested,
          ast, next_item, collector, lowered>>

\* ------------------------------------------------------------ file system
NoPath == <<"", "">>
Absent == [kind |-> "none", items |-> <<>>, to |-> NoPath]
Unreadable == [kind |-> "err", items |-> <<>>, to |-> NoPath]
EPrimeFile == [kind |-> "eprime", items |-> <<>>, to |-> NoPath]
MznFile(its) == [kind |-> "mzn", items |-> its, to |-> NoPath]
LinkTo(p) == [kind |-> "link", items |-> <<>>, to |-> p]

\* surface items: include items and everything else
IncAbs(p) == [k |-> "abs", dir |-> p[1], name |-> p[2]]
IncDot(n) == [k |-> "dot", dir |-> "", name |-> n]
IncRel(n) == [k |-> "rel", dir |-> "", name |-> n]
OtherItem == [k |-> "other", dir |-> "", name |-> ""]
\* an item that holds a case expression
CaseItem == [k |-> "case", dir |-> "", name |-> ""]

HasPath(f) == f[1] # ""
Join(d, n) == <<d, n>>

\* Path::exists (follows symbolic links)
Exists(p) ==
    /\ p \in DOMAIN fs
    /\ HasPath(p)
    /\ fs[p].kind # "none"
    /\ (fs[p].kind = "link" => fs[fs[p].to].kind \notin {"none", "link"})

\* p.canonicalize().unwrap_or(p)
Canonicalize(p) ==
    IF Exists(p) /\ fs[p].kind = "link" THEN fs[p].to ELSE p

\* db.ast(file): the parsed model of a file, or an error
Ast(f) ==
    IF HasPath(f)
    THEN IF Exists(f) THEN fs[Canonicalize(f)] ELSE Unreadable
    ELSE fs[f]

\* ----------------------------------------------------------------- errors
StandardLibraryNotFound ==
    [kind |-> "StandardLibraryNotFound", file |-> NoPath, item |-> 0, include |-> OtherItem]
FileError(f) ==
    [kind |-> "FileError", file |-> f, item |-> 0, include |-> OtherItem]
IncludeError(f, i, inc) ==
    [kind |-> "IncludeError", file |-> f, item |-> i, include |-> inc]
NoError ==
    [kind |-> "None", file |-> NoPath, item |-> 0, include |-> OtherItem]
MultipleErrors(es) == [kind |-> "MultipleErrors", errors |-> es]
\* db.share_directory() fails with the error it reports
ShareDirectoryError == StandardLibraryNotFound

NoResult == [tag |-> "None", models |-> <<>>, error |-> NoError]
Ok(ms) == [tag |-> "Ok", models |-> ms, error |-> NoError]
Err(e) == [tag |-> "Err", models |-> <<>>, error |-> e]

\* ------------------------------------------------- resolve_includes: setup
AutoIncludes == <<SolverRedefName, StdlibName>>

\* auto_includes.iter().map(|i| dir.join(*i)).filter(|p| p.exists())
FoundIn(dir) ==
    SelectSeq([i \in 1..Len(AutoIncludes) |-> Join(dir, AutoIncludes[i])], Exists)

\* variant: a directory holding any auto include is taken
RECURSIVE FindStdlibAnyFrom(_)
FindStdlibAnyFrom(i) ==
    IF i > Len(search_dirs) THEN 0
    ELSE IF Len(FoundIn(search_dirs[i])) > 0 THEN i
    ELSE FindStdlibAnyFrom(i + 1)

\* index of the first search directory holding every auto include, 0 if none
RECURSIVE FindStdlibFrom(_)
FindStdlibFrom(i) ==
    IF i > Len(search_dirs) THEN 0
    ELSE IF Len(FoundIn(search_dirs[i])) = Len(AutoIncludes) THEN i
    ELSE FindStdlibFrom(i + 1)

FindStdlib == FindStdlibFrom(1)

\* files pushed on the work stack for the standard library
StdlibTodo ==
    IF ignore_stdlib \/ ~share_ok \/ FindStdlib = 0 THEN <<>>
    ELSE FoundIn(search_dirs[FindStdlib])

\* variant: the library is looked for although it is to be ignored
StdlibErrorsAlways ==
    IF ~share_ok THEN <<ShareDirectoryError>>
    ELSE IF FindStdlib = 0 THEN <<StandardLibraryNotFound>>
    ELSE <<>>

\* errors recorded while locating the standard library
StdlibErrors ==
    IF ignore_stdlib THEN <<>>
    ELSE IF ~share_ok THEN <<ShareDirectoryError>>
    ELSE IF FindStdlib = 0 THEN <<StandardLibraryNotFound>>
    ELSE <<>>

Start ==
    /\ pc = "start"
    /\ errors' = StdlibErrors
    /\ todo' = input_models \o StdlibTodo
    /\ models' = <<>>
    /\ seen' = {}
    /\ pc' = "loop"
    /\ UNCHANGED <<world, lowering, report, calls, cur, idx, result>>

\* -------------------------------------------- resolve_includes: work loop
Top == todo[Len(todo)]

\* variant: the visited set is asked for the path as it is spelled
AlreadySeenRaw(f) == HasPath(f) /\ f \in seen
\* variant: the visited set is asked for the file name only
AlreadySeenByName(f) == HasPath(f) /\ f[2] \in {p[2] : p \in seen}
AlreadySeen(f) == HasPath(f) /\ Canonicalize(f) \in seen
Visit(f) == IF HasPath(f) THEN seen \cup {Canonicalize(f)} ELSE seen

\* variant: a visited file is looked at but left on the stack
PoppedUnlessSeen ==
    IF AlreadySeen(Top) THEN todo ELSE SubSeq(todo, 1, Len(todo) - 1)
Popped == SubSeq(todo, 1, Len(todo) - 1)

PopSeen ==
    /\ pc = "loop"
    /\ todo # <<>>
    /\ AlreadySeen(Top)
    /\ todo' = Popped
    /\ UNCHANGED <<world, lowering, report, calls, pc, seen, models, errors, cur, idx, result>>

PopErr ==
    /\ pc = "loop"
    /\ todo # <<>>
    /\ ~AlreadySeen(Top)
    /\ Ast(Top).kind = "err"
    /\ todo' = Popped
    /\ seen' = Visit(Top)
    /\ errors' = Append(errors, FileError(Top))
    /\ UNCHANGED <<world, lowering, report, calls, pc, models, cur, idx, result>>

\* search_dirs.iter().find(|p| p.join(name).exists())
RECURSIVE FindDirFrom(_, _)
FindDirFrom(name, i) ==
    IF i > Len(search_dirs) THEN 0
    ELSE IF Exists(Join(search_dirs[i], name)) THEN i
    ELSE FindDirFrom(name, i + 1)

EPrimeGlobals ==
    LET i == FindDirFrom(EPrimeGlobalsName, 1)
    IN  IF i = 0 THEN <<>> ELSE <<Join(search_dirs[i], EPrimeGlobalsName)>>

PopEPrime ==
    /\ pc = "loop"
    /\ todo # <<>>
    /\ ~AlreadySeen(Top)
    /\ Ast(Top).kind = "eprime"
    /\ seen' = Visit(Top)
    /\ models' = Append(models, Top)
    /\ todo' = Popped \o EPrimeGlobals
    /\ UNCHANGED <<world, lowering, report, calls, pc, errors, cur, idx, result>>

PopMzn ==
    /\ pc = "loop"
    /\ todo # <<>>
    /\ ~AlreadySeen(Top)
    /\ Ast(Top).kind = "mzn"
    /\ seen' = Visit(Top)
    /\ models' = Append(models, Top)
    /\ todo' = Popped
    /\ cur' = Top
    /\ idx' = 1
    /\ pc' = IF Len(Ast(Top).items) = 0 THEN "loop" ELSE "items"
    /\ UNCHANGED <<world, lowering, report, calls, errors, result>>

\* ------------------------------------------ resolve_includes: include item
\* model.cst().file().path().and_then(|p| p.parent())
FileDir(f) == IF HasPath(f) THEN <<f[1]>> ELSE <<>>

\* first path of a sequence of candidates that exists, as an Option
RECURSIVE FindExisting(_, _)
FindExisting(cands, i) ==
    IF i > Len(cands) THEN <<>>
    ELSE IF Exists(cands[i]) THEN <<cands[i]>>
    ELSE FindExisting(cands, i + 1)

JoinAll(dirs, n) == [i \in 1..Len(dirs) |-> Join(dirs[i], n)]

\* variant: ./name is searched like any other relative include
ResolveIncludeFlat(f, inc) ==
    IF inc.k = "abs" THEN <<Join(inc.dir, inc.name)>>
    ELSE FindExisting(JoinAll(search_dirs \o FileDir(f), inc.name), 1)

\* the file an include item of file f resolves to, as an Option
ResolveInclude(f, inc) ==
    IF inc.k = "abs" THEN <<Join(inc.dir, inc.name)>>
    ELSE IF inc.k = "dot" THEN FindExisting(JoinAll(FileDir(f), inc.name), 1)
    ELSE FindExisting(JoinAll(search_dirs \o FileDir(f), inc.name), 1)

\* variant: a missing include ends the walk over the items of the file
IncludeItemBreak ==
    /\ pc = "items"
    /\ LET item == Ast(cur).items[idx]
           r == ResolveInclude(cur, item)
           missing == item.k \in {"abs", "dot", "rel"} /\ r = <<>>
       IN  /\ IF item.k \notin {"abs", "dot", "rel"}
              THEN UNCHANGED <<todo, errors>>
              ELSE IF r = <<>>
                   THEN /\ errors' = Append(errors, IncludeError(cur, idx, item))
                        /\ UNCHANGED todo
                   ELSE /\ todo' = todo \o r
                        /\ UNCHANGED errors
           /\ idx' = idx + 1
           /\ pc' = IF missing \/ idx = Len(Ast(cur).items) THEN "loop" ELSE "items"
    /\ UNCHANGED <<world, lowering, report, calls, seen, models, cur, result>>

IncludeItem ==
    /\ pc = "items"
    /\ LET item == Ast(cur).items[idx]
           r == ResolveInclude(cur, item)
       IN  /\ IF item.k \notin {"abs", "dot", "rel"}
              THEN UNCHANGED <<todo, errors>>
              ELSE IF r = <<>>
                   THEN /\ errors' = Append(errors, IncludeError(cur, idx, item))
                        /\ UNCHANGED todo
                   ELSE /\ todo' = todo \o r
                        /\ UNCHANGED errors
           /\ idx' = idx + 1
           /\ pc' = IF idx = Len(Ast(cur).items) THEN "loop" ELSE "items"
    /\ UNCHANGED <<world, lowering, report, calls, seen, models, cur, result>>

\* ------------------------------------------------ resolve_includes: return
\* variant: only the last error is returned
FinishLast(ms, es) ==
    IF Len(es) = 0 THEN Ok(ms) ELSE Err(es[Len(es)])

Finish(ms, es) ==
    IF Len(es) = 0 THEN Ok(ms)
    ELSE IF Len(es) = 1 THEN Err(es[Len(es)])
    ELSE Err(MultipleErrors(es))

Return ==
    /\ pc = "loop"
    /\ todo = <<>>
    /\ result' = Finish(models, errors)
    /\ pc' = "done"
    /\ UNCHANGED <<world, lowering, report, calls, todo, seen, models, errors, cur, idx>>

\* -------------------------------------------------------------- all_errors
\* the diagnostics of one query: phase ph asked about item i of model m
Diagnostic(ph, m, i, e) == [phase |-> ph, model |-> m, item |-> i, error |-> e]
QueryErrors(ph, m, i) ==
    IF ph \in diag THEN <<Diagnostic(ph, m, i, NoError)>> ELSE <<>>

\* db.lookup_items(m): one item per surface item that is not an include
LookupItems(m) ==
    LET its == Ast(m).items
    IN  SelectSeq([i \in DOMAIN its |-> i], LAMBDA i : its[i].k \notin {"abs", "dot", "rel"})

\* db.items_with_case(m)
ItemsWithCase(m) ==
    LET its == Ast(m).items
    IN  IF Ast(m).kind = "mzn"
        THEN SelectSeq([i \in DOMAIN its |-> i], LAMBDA i : its[i].k = "case")
        ELSE <<>>

\* db.syntax_errors(): the syntax error of every model that has one
RECURSIVE SyntaxErrorsFrom(_, _)
SyntaxErrorsFrom(ms, k) ==
    IF k > Len(ms) THEN <<>>
    ELSE QueryErrors("syntax", ms[k], 0) \o SyntaxErrorsFrom(ms, k + 1)

\* variant: the type errors of an item are collected before its scope errors
ItemErrorsTypeFirst(m, i) ==
    QueryErrors("type", m, i) \o QueryErrors("scope", m, i)

\* scoping errors, then type errors of one item
ItemErrors(m, i) ==
    QueryErrors("scope", m, i) \o QueryErrors("type", m, i)

RECURSIVE ItemsErrorsFrom(_, _, _)
ItemsErrorsFrom(m, its, k) ==
    IF k > Len(its) THEN <<>>
    ELSE ItemErrors(m, its[k]) \o ItemsErrorsFrom(m, its, k + 1)

RECURSIVE CaseErrorsFrom(_, _, _)
CaseErrorsFrom(m, its, k) ==
    IF k > Len(its) THEN <<>>
    ELSE QueryErrors("exhaustiveness", m, its[k]) \o CaseErrorsFrom(m, its, k + 1)

\* the body of the loop over the resolved models
ModelErrors(m) ==
    QueryErrors("lowering", m, 0)
        \o ItemsErrorsFrom(m, LookupItems(m), 1)
        \o CaseErrorsFrom(m, ItemsWithCase(m), 1)

RECURSIVE ModelsErrorsFrom(_, _)
ModelsErrorsFrom(ms, k) ==
    IF k > Len(ms) THEN <<>>
    ELSE ModelErrors(ms[k]) \o ModelsErrorsFrom(ms, k + 1)

\* variant: the global-scope errors are collected after a failed resolution too
AllErrorsWithGlobal(res) ==
    IF res.tag = "Ok"
    THEN SyntaxErrorsFrom(res.models, 1)
            \o ModelsErrorsFrom(res.models, 1)
            \o QueryErrors("global", NoPath, 0)
            \o QueryErrors("toposort", NoPath, 0)
            \o QueryErrors("validate", NoPath, 0)
    ELSE <<Diagnostic("resolve", NoPath, 0, res.error)>> \o QueryErrors("global", NoPath, 0)

AllErrorsOf(res) ==
    IF res.tag = "Ok"
    THEN SyntaxErrorsFrom(res.models, 1)
            \o ModelsErrorsFrom(res.models, 1)
            \o QueryErrors("global", NoPath, 0)
            \o QueryErrors("toposort", NoPath, 0)
            \o QueryErrors("validate", NoPath, 0)
    ELSE <<Diagnostic("resolve", NoPath, 0, res.error)>>

\* ----------------------------------------------------- the query engine
\* a derived query with its arguments
Key(q, m, i) == [query |-> q, model |-> m, item |-> i]

\* a memoized query runs its body only when it has no stored value
Demand(ev, keys) == [ev EXCEPT !.once = @ \cup keys]

\* variant: the lowering function is called directly, not through the database
LookupModelDirect(ev, ms) ==
    LET keys == {Key("lower_items", m, 0) : m \in ms}
    IN  [once |-> ev.once \cup keys, again |-> ev.again \cup (keys \cap ev.once)]

\* db.lookup_model(m), db.lookup_source_map(m), db.lookup_lowering_errors(m)
LookupModel(ev, ms) == Demand(ev, {Key("lower_items", m, 0) : m \in ms})

\* every query of a set of requests is demanded from the database
DemandAll(ev, keys) ==
    LET lower == {key \in keys : key.query = "lower_items"}
    IN  LookupModel(Demand(ev, keys \ lower), {key.model : key \in lower})

\* one query asked for each item of its, a sequence of items of model m
ItemsRequests(q, m, its) == {Key(q, m, its[k]) : k \in DOMAIN its}

\* variant: all_errors asks for the syntax errors before it looks at the
\* result of resolve_includes
AllErrorsRequestsSyntaxFirst(res) ==
    {Key("resolve_includes", NoPath, 0), Key("syntax_errors", NoPath, 0)}
        \cup IF res.tag = "Ok"
             THEN {Key("collect_global_scope", NoPath, 0)}
             ELSE {}

\* the queries all_errors demands
AllErrorsRequests(res) ==
    {Key("resolve_includes", NoPath, 0)}
        \cup IF res.tag = "Ok"
             THEN {Key("syntax_errors", NoPath, 0),
                   Key("collect_global_scope", NoPath, 0),
                   Key("topological_sort_items", NoPath, 0),
                   Key("validate_hir", NoPath, 0)}
                  \cup UNION {{Key("lower_items", res.models[k], 0),
                               Key("items_with_case", res.models[k], 0)}
                              \cup ItemsRequests("collect_item_scope", res.models[k],
                                                 LookupItems(res.models[k]))
                              \cup ItemsRequests("lookup_item_type_errors", res.models[k],
                                                 LookupItems(res.models[k]))
                              \cup ItemsRequests("check_case_exhaustiveness", res.models[k],
                                                 ItemsWithCase(res.models[k])) :
                              k \in DOMAIN res.models}
             ELSE {}

AllErrors ==
    /\ pc = "done"
    /\ ~reported
    /\ diagnostics' = AllErrorsOf(result)
    /\ reported' = TRUE
    /\ evaluated' = DemandAll(evaluated, AllErrorsRequests(result))
    /\ UNCHANGED <<world, lowering, resolver, warnings, warned, hir, requested>>

\* ------------------------------------------------------------ all_warnings
\* scoping warnings, then case exhaustiveness warnings of one item
ItemWarnings(m, i) ==
    QueryErrors("scope_warning", m, i) \o QueryErrors("exhaustiveness_warning", m, i)

RECURSIVE ItemsWarningsFrom(_, _, _)
ItemsWarningsFrom(m, its, k) ==
    IF k > Len(its) THEN <<>>
    ELSE ItemWarnings(m, its[k]) \o ItemsWarningsFrom(m, its, k + 1)

RECURSIVE ModelsWarningsFrom(_, _)
ModelsWarningsFrom(ms, k) ==
    IF k > Len(ms) THEN <<>>
    ELSE ItemsWarningsFrom(ms[k], LookupItems(ms[k]), 1) \o ModelsWarningsFrom(ms, k + 1)

\* variant: warnings are reported only when there is no error
AllWarningsOnSuccess(res) ==
    IF res.tag = "Ok" /\ AllErrorsOf(res) = <<>>
    THEN ModelsWarningsFrom(res.models, 1)
    ELSE <<>>

AllWarningsOf(res) ==
    IF res.tag = "Ok" THEN ModelsWarningsFrom(res.models, 1) ELSE <<>>

\* the queries all_warnings demands
AllWarningsRequests(res) ==
    {Key("resolve_includes", NoPath, 0)}
        \cup IF res.tag = "Ok"
             THEN UNION {{Key("lower_items", res.models[k], 0)}
                         \cup ItemsRequests("collect_item_scope", res.models[k],
                                            LookupItems(res.models[k]))
                         \cup ItemsRequests("check_case_exhaustiveness", res.models[k],
                                            LookupItems(res.models[k])) :
                         k \in DOMAIN res.models}
             ELSE {}

AllWarnings ==
    /\ pc = "done"
    /\ ~warned
    /\ warnings' = AllWarningsOf(result)
    /\ warned' = TRUE
    /\ evaluated' = DemandAll(evaluated, AllWarningsRequests(result))
    /\ UNCHANGED <<world, lowering, resolver, report, hir, requested>>

\* ----------------------------------------------------------- run_hir_phase
NoHir == [tag |-> "None", items |-> <<>>, errors |-> <<>>]
HirOk(its) == [tag |-> "Ok", items |-> its, errors |-> <<>>]
HirErr(es) == [tag |-> "Err", items |-> <<>>, errors |-> es]

\* db.lookup_topological_sorted_items(): the items of all models, sorted
RECURSIVE TopologicalSortedItemsFrom(_, _)
TopologicalSortedItemsFrom(ms, k) ==
    IF k > Len(ms) THEN <<>>
    ELSE [j \in DOMAIN LookupItems(ms[k]) |-> [model |-> ms[k], item |-> LookupItems(ms[k])[j]]]
            \o TopologicalSortedItemsFrom(ms, k + 1)

\* variant: the item list is returned without looking at the aggregate
RunHirPhaseUnchecked(res) ==
    IF res.tag = "Ok"
    THEN HirOk(TopologicalSortedItemsFrom(res.models, 1))
    ELSE HirErr(AllErrorsOf(res))

RunHirPhaseOf(res) ==
    IF res.tag = "Ok"
    THEN IF AllErrorsOf(res) = <<>>
         THEN HirOk(TopologicalSortedItemsFrom(res.models, 1))
         ELSE HirErr(AllErrorsOf(res))
    ELSE HirErr(AllErrorsOf(res))

\* the queries run_hir_phase demands
RunHirPhaseRequests(res) ==
    AllErrorsRequests(res)
        \cup IF res.tag = "Ok"
             THEN UNION {ItemsRequests("lookup_item_types", res.models[k],
                                       LookupItems(res.models[k])) :
                         k \in DOMAIN res.models}
             ELSE {}

\* run_hir_phase in which the items of a model are typed right after
\* their scopes are collected
RunHirPhaseTracePerModel(res) ==
    LET Once(q) == <<Key(q, NoPath, 0)>>
        Items(q, m, its) == [k \in DOMAIN its |-> Key(q, m, its[k])]
        RECURSIVE Models(_, _)
        Models(f(_), k) ==
            IF k > Len(res.models) THEN <<>> ELSE f(res.models[k]) \o Models(f, k + 1)
        Lower(m) == <<Key("lower_items", m, 0)>>
        ScopesAndTypes(m) == Lower(m) \o Items("collect_item_scope", m, LookupItems(m))
                             \o Lower(m) \o Items("lookup_item_types", m, LookupItems(m))
        Cases(m) == <<Key("items_with_case", m, 0)>>
                    \o Items("check_case_exhaustiveness", m, ItemsWithCase(m))
    IN  IF res.tag # "Ok"
        THEN Once("resolve_includes") \o Once("all_errors")
        ELSE Once("resolve_includes") \o Once("syntax_errors") \o Models(Lower, 1)
             \o Once("collect_global_scope") \o Models(ScopesAndTypes, 1)
             \o Models(Cases, 1) \o Once("all_errors")
             \o IF AllErrorsOf(res) = <<>> THEN Once("topological_sort_items") ELSE <<>>

\* the calls of run_hir_phase on the database, in order; lookup_items(m) is
\* a request for lower_items of m
RunHirPhaseTrace(res) ==
    LET Once(q) == <<Key(q, NoPath, 0)>>
        Items(q, m, its) == [k \in DOMAIN its |-> Key(q, m, its[k])]
        RECURSIVE Models(_, _)
        Models(f(_), k) ==
            IF k > Len(res.models) THEN <<>> ELSE f(res.models[k]) \o Models(f, k + 1)
        Lower(m) == <<Key("lower_items", m, 0)>>
        Scopes(m) == Lower(m) \o Items("collect_item_scope", m, LookupItems(m))
        Types(m) == Lower(m) \o Items("lookup_item_types", m, LookupItems(m))
        Cases(m) == <<Key("items_with_case", m, 0)>>
                    \o Items("check_case_exhaustiveness", m, ItemsWithCase(m))
    IN  IF res.tag # "Ok"
        THEN Once("resolve_includes") \o Once("all_errors")
        ELSE Once("resolve_includes") \o Once("syntax_errors") \o Models(Lower, 1)
             \o Once("collect_global_scope") \o Models(Scopes, 1) \o Models(Types, 1)
             \o Models(Cases, 1) \o Once("all_errors")
             \o IF AllErrorsOf(res) = <<>> THEN Once("topological_sort_items") ELSE <<>>

RunHirPhase ==
    /\ pc = "done"
    /\ hir = NoHir
    /\ hir' = RunHirPhaseOf(result)
    /\ requested' = RunHirPhaseTrace(result)
    /\ evaluated' = DemandAll(evaluated, RunHirPhaseRequests(result))
    /\ UNCHANGED <<world, lowering, resolver, report, warnings, warned>>

\* ------------------------------------ lowering: the ExpressionCollector
\* Origin::new(node): the path of the node below the model, one step per
\* field of the parent and position in that field
At(origin, field, k) == Append(origin, <<field, k>>)

\* TypeInstIdentifiers::default(): the named type-inst ids, one
\* [ident, in_param, d] per key of the map, and the anonymous ones
TypeInstIdentifiersDefault == [tiids |-> {}, anons |-> <<>>]

\* a fresh collector for one item; fields lists the ids the item is built
\* from, in the order they are computed; tiids is the TypeInstIdentifiers
\* that the item collector hands to collect_type_with_tiids
\* from, in the order they are computed
ExpressionCollectorNew(diags) ==
    [expressions |-> <<>>, types |-> <<>>, patterns |-> <<>>, source_map |-> {},
     diagnostics |-> diags, fields |-> <<>>, id |-> 0, panicked |-> FALSE,
     tiids |-> TypeInstIdentifiersDefault]

add_diagnostic(ctx, kind, origin, msg) ==
    [ctx EXCEPT !.diagnostics = Append(@, [kind |-> kind, at |-> origin, msg |-> msg])]

\* alloc_expression on an arena that puts the new node first
alloc_expression_first(ctx, origin, v) ==
    [ctx EXCEPT !.expressions = <<v>> \o @,
                !.source_map = @ \cup {[sort |-> "expression", id |-> 1,
                                        origin |-> origin]},
                !.id = 1]

alloc_expression(ctx, origin, v) ==
    LET index == Len(ctx.expressions) + 1
    IN  [ctx EXCEPT !.expressions = Append(@, v),
                    !.source_map = @ \cup {[sort |-> "expression", id |-> index,
                                            origin |-> origin]},
                    !.id = index]

alloc_type(ctx, origin, v) ==
    LET index == Len(ctx.types) + 1
    IN  [ctx EXCEPT !.types = Append(@, v),
                    !.source_map = @ \cup {[sort |-> "type", id |-> index,
                                            origin |-> origin]},
                    !.id = index]

\* alloc_pattern without the entry in pattern_source
alloc_pattern_unmapped(ctx, origin, v) ==
    LET index == Len(ctx.patterns) + 1
    IN  [ctx EXCEPT !.patterns = Append(@, v), !.id = index]

alloc_pattern(ctx, origin, v) ==
    LET index == Len(ctx.patterns) + 1
    IN  [ctx EXCEPT !.patterns = Append(@, v),
                    !.source_map = @ \cup {[sort |-> "pattern", id |-> index,
                                            origin |-> origin]},
                    !.id = index]

\* the patterns of the surface universe: missing, identifier, anonymous and
\* numeric literal
collect_pattern(ctx, p, origin) ==
    IF p.k = "missing"
    THEN alloc_pattern(ctx, origin, [k |-> "Missing"])
    ELSE CASE p.k = "identifier" ->
                alloc_pattern(ctx, origin, [k |-> "Identifier", name |-> p.name])
           [] p.k = "anonymous" ->
                alloc_pattern(ctx, origin, [k |-> "Anonymous"])
           [] p.k = "numeric_literal" /\ p.value.k = "integer_literal" ->
                IF p.value.value.ok
                THEN alloc_pattern(ctx, origin,
                        [k |-> "Integer", negated |-> p.negated, value |-> p.value.value.v])
                ELSE alloc_pattern(
                        add_diagnostic(ctx, "InvalidNumericLiteral",
                                       At(origin, "value", 1), "parse"),
                        origin, [k |-> "Integer", negated |-> p.negated, value |-> 0])
           [] p.k = "numeric_literal" /\ p.value.k = "float_literal" ->
                IF p.value.value.ok
                THEN alloc_pattern(ctx, origin,
                        [k |-> "Float", negated |-> p.negated, value |-> p.value.value.v])
                ELSE alloc_pattern(
                        add_diagnostic(ctx, "InvalidNumericLiteral",
                                       At(origin, "value", 1), "parse"),
                        origin, [k |-> "Float", negated |-> p.negated, value |-> "0.0"])
           [] p.k = "numeric_literal" /\ p.value.k = "infinity" ->
                alloc_pattern(ctx, origin, [k |-> "Infinity", negated |-> p.negated])

RECURSIVE collect_expression(_, _, _)
RECURSIVE collect_expressions(_, _, _, _, _, _)
RECURSIVE collect_case_items(_, _, _, _, _)
RECURSIVE collect_rows(_, _, _, _, _, _)

\* es.map(|e| self.collect_expression(e)).collect(): the collector after
\* the last member and the ids of the members
collect_expressions(ctx, es, origin, field, k, ids) ==
    IF k > Len(es)
    THEN [ctx |-> ctx, ids |-> ids]
    ELSE LET c == collect_expression(ctx, es[k], At(origin, field, k))
         IN  collect_expressions(c, es, origin, field, k + 1, Append(ids, c.id))

\* collect_tuple_access that reports no diagnostic for an unparsable field
collect_tuple_access_silent(ctx, t, origin) ==
    LET c == collect_expression(ctx, t.tuple, At(origin, "tuple", 1))
    IN  [ctx |-> c,
         v |-> [k |-> "TupleAccess",
                field |-> IF t.field.value.ok THEN t.field.value.v ELSE 1,
                tuple |-> c.id]]

collect_tuple_access(ctx, t, origin) ==
    LET f == IF t.field.value.ok
             THEN ctx
             ELSE add_diagnostic(ctx, "InvalidNumericLiteral", At(origin, "field", 1), "parse")
        c == collect_expression(f, t.tuple, At(origin, "tuple", 1))
    IN  [ctx |-> c,
         v |-> [k |-> "TupleAccess",
                field |-> IF t.field.value.ok THEN t.field.value.v ELSE 1,
                tuple |-> c.id]]

\* the arms of a case expression, from arm k on
collect_case_items(ctx, arms, origin, k, cases) ==
    IF k > Len(arms)
    THEN [ctx |-> ctx, cases |-> cases]
    ELSE LET p == collect_pattern(ctx, arms[k].pattern, At(At(origin, "case", k), "pattern", 1))
             v == collect_expression(p, arms[k].value, At(At(origin, "case", k), "value", 1))
         IN  collect_case_items(v, arms, origin, k + 1,
                                Append(cases, [pattern |-> p.id, value |-> v.id]))

collect_case(ctx, c, origin) ==
    LET e == collect_expression(ctx, c.expression, At(origin, "expression", 1))
        r == collect_case_items(e, c.cases, origin, 1, <<>>)
    IN  [ctx |-> r.ctx,
         v |-> [k |-> "Case", expression |-> e.id, cases |-> r.cases]]

\* the loop over the rows of a 2-D array literal, from row k on; st holds
\* first, col_count, row_indices, row_count and values
collect_rows(ctx, al, origin, col_indices, st, k) ==
    IF k > Len(al.rows)
    THEN alloc_expression(ctx, origin,
            [k |-> "ArrayLiteral2D",
             rows |-> IF st.row_indices = <<>>
                      THEN [indexed |-> FALSE, n |-> st.row_count, indices |-> <<>>]
                      ELSE [indexed |-> TRUE, n |-> Len(st.row_indices),
                            indices |-> st.row_indices],
             columns |-> IF col_indices = <<>>
                         THEN [indexed |-> FALSE, n |-> st.col_count, indices |-> <<>>]
                         ELSE [indexed |-> TRUE, n |-> Len(col_indices),
                               indices |-> col_indices],
             members |-> st.values])
    ELSE LET row == al.rows[k]
             ms == collect_expressions(ctx, row.members, At(origin, "row", k), "member",
                                       1, <<>>)
             c == IF row.index # <<>>
                  THEN collect_expression(ms.ctx, row.index[1],
                                          At(At(origin, "row", k), "index", 1))
                  ELSE ms.ctx
             row_indices == IF row.index # <<>>
                            THEN Append(st.row_indices, c.id)
                            ELSE st.row_indices
             col_count == IF st.first THEN Len(ms.ids) ELSE st.col_count
             Invalid(msg) ==
                alloc_expression(add_diagnostic(c, "InvalidArrayLiteral", origin, msg),
                                 origin, [k |-> "Missing"])
         IN  IF st.first /\ col_indices # <<>> /\ col_count # Len(col_indices)
             THEN Invalid("2D array literal has different row length to index row")
             ELSE IF ~st.first /\ Len(ms.ids) # st.col_count
             THEN Invalid("Non-uniform 2D array literal row length")
             ELSE IF (row.index = <<>>) # (row_indices = <<>>)
             THEN Invalid("Mixing indexed and non-indexed rows not allowed")
             ELSE collect_rows(c, al, origin, col_indices,
                               [first |-> FALSE, col_count |-> col_count,
                                row_indices |-> row_indices,
                                row_count |-> st.row_count + 1,
                                values |-> st.values \o ms.ids],
                               k + 1)

collect_2d_array_literal(ctx, al, origin) ==
    LET cols == collect_expressions(ctx, al.column_indices, origin, "column_index", 1, <<>>)
    IN  collect_rows(cols.ctx, al, origin, cols.ids,
                     [first |-> TRUE, col_count |-> 0, row_indices |-> <<>>,
                      row_count |-> 0, values |-> <<>>],
                     1)

\* collect_array_literal that accepts every mix of indexed and non-indexed
\* members
collect_array_literal_lenient(ctx, al, origin) ==
    LET RECURSIVE members(_, _, _, _)
        members(c, k, indices, values) ==
            IF k > Len(al.members)
            THEN [ctx |-> c, indices |-> indices, values |-> values]
            ELSE LET m == al.members[k]
                     i == IF m.indices # <<>>
                          THEN collect_expression(c, m.indices[1],
                                                  At(At(origin, "member", k), "indices", 1))
                          ELSE c
                     v == collect_expression(i, m.value, At(At(origin, "member", k), "value", 1))
                 IN  members(v, k + 1,
                             Append(indices, IF m.indices # <<>> THEN <<i.id>> ELSE <<>>),
                             Append(values, v.id))
        r == members(ctx, 1, <<>>, <<>>)
        RECURSIVE flatten(_)
        flatten(k) == IF k > Len(r.indices) THEN <<>> ELSE r.indices[k] \o flatten(k + 1)
    IN  IF \A k \in DOMAIN r.indices : r.indices[k] = <<>>
        THEN alloc_expression(r.ctx, origin, [k |-> "ArrayLiteral", members |-> r.values])
        ELSE alloc_expression(r.ctx, origin,
                [k |-> "IndexedArrayLiteral", indices |-> flatten(1), members |-> r.values])

\* a member is [indices, value], indices holding no or one expression; loop
\* is the for loop over indices[1..], TRUE when it runs to its end
collect_array_literal(ctx, al, origin) ==
    LET RECURSIVE members(_, _, _, _)
        members(c, k, indices, values) ==
            IF k > Len(al.members)
            THEN [ctx |-> c, indices |-> indices, values |-> values]
            ELSE LET m == al.members[k]
                     i == IF m.indices # <<>>
                          THEN collect_expression(c, m.indices[1],
                                                  At(At(origin, "member", k), "indices", 1))
                          ELSE c
                     v == collect_expression(i, m.value, At(At(origin, "member", k), "value", 1))
                 IN  members(v, k + 1,
                             Append(indices, IF m.indices # <<>> THEN <<i.id>> ELSE <<>>),
                             Append(values, v.id))
        r == members(ctx, 1, <<>>, <<>>)
        RECURSIVE loop(_, _, _)
        loop(k, start_indexed, fully_indexed) ==
            IF k > Len(r.indices)
            THEN TRUE
            ELSE LET s == IF r.indices[k] # <<>> THEN FALSE ELSE start_indexed
                     f == IF r.indices[k] # <<>> THEN fully_indexed ELSE FALSE
                 IN  IF ~s /\ ~f THEN FALSE ELSE loop(k + 1, s, f)
        RECURSIVE flatten(_)
        flatten(k) == IF k > Len(r.indices) THEN <<>> ELSE r.indices[k] \o flatten(k + 1)
    IN  IF \A k \in DOMAIN r.indices : r.indices[k] = <<>>
        THEN alloc_expression(r.ctx, origin, [k |-> "ArrayLiteral", members |-> r.values])
        ELSE IF loop(2, r.indices[1] # <<>>, r.indices[1] # <<>>)
        THEN alloc_expression(r.ctx, origin,
                [k |-> "IndexedArrayLiteral", indices |-> flatten(1), members |-> r.values])
        ELSE alloc_expression(
                add_diagnostic(r.ctx, "InvalidArrayLiteral", origin,
                               "Indexed array literal must be fully indexed, or only have an index for the first element"),
                origin, [k |-> "Missing"])

collect_call(ctx, c, origin) ==
    LET arguments == collect_expressions(ctx, c.arguments, origin, "argument", 1, <<>>)
        function == collect_expression(arguments.ctx, c.function, At(origin, "function", 1))
    IN  [ctx |-> function,
         v |-> [k |-> "Call", function |-> function.id, arguments |-> arguments.ids]]

\* collect_infix_operator that keeps the name of ==
collect_infix_operator_verbatim(ctx, o, origin) ==
    LET left == collect_expression(ctx, o.left, At(origin, "left", 1))
        right == collect_expression(left, o.right, At(origin, "right", 1))
        function == alloc_expression(right, At(origin, "operator", 1),
                                     [k |-> "Identifier", name |-> o.operator])
    IN  alloc_expression(function, origin,
                         [k |-> "Call", function |-> function.id,
                          arguments |-> <<left.id, right.id>>])

\* ident_exp allocates the identifier of the operator at the operator
collect_infix_operator(ctx, o, origin) ==
    LET left == collect_expression(ctx, o.left, At(origin, "left", 1))
        right == collect_expression(left, o.right, At(origin, "right", 1))
        function == alloc_expression(right, At(origin, "operator", 1),
                                     [k |-> "Identifier",
                                      name |-> IF o.operator = "==" THEN "=" ELSE o.operator])
    IN  alloc_expression(function, origin,
                         [k |-> "Call", function |-> function.id,
                          arguments |-> <<left.id, right.id>>])

\* the expressions of the surface universe: missing, integer and float
\* literal, identifier, anonymous, array literals, call, infix operator,
\* case and tuple access
collect_expression(ctx, e, origin) ==
    IF e.k = "missing"
    THEN alloc_expression(ctx, origin, [k |-> "Missing"])
    ELSE CASE e.k = "integer_literal" ->
                IF e.value.ok
                THEN alloc_expression(ctx, origin, [k |-> "IntegerLiteral", v |-> e.value.v])
                ELSE alloc_expression(
                        add_diagnostic(ctx, "InvalidNumericLiteral", origin, "parse"),
                        origin, [k |-> "IntegerLiteral", v |-> 0])
           [] e.k = "float_literal" ->
                IF e.value.ok
                THEN alloc_expression(ctx, origin, [k |-> "FloatLiteral", v |-> e.value.v])
                ELSE alloc_expression(
                        add_diagnostic(ctx, "InvalidNumericLiteral", origin, "parse"),
                        origin, [k |-> "FloatLiteral", v |-> "0.0"])
           [] e.k = "anonymous" ->
                alloc_expression(
                    add_diagnostic(ctx, "SyntaxError", origin,
                                   "Anonymous variables in expressions are not supported"),
                    origin, [k |-> "Missing"])
           [] e.k = "identifier" ->
                alloc_expression(ctx, origin, [k |-> "Identifier", name |-> e.name])
           [] e.k = "array_literal" ->
                collect_array_literal(ctx, e, origin)
           [] e.k = "call" ->
                LET r == collect_call(ctx, e, origin)
                IN  alloc_expression(r.ctx, origin, r.v)
           [] e.k = "infix_operator" ->
                collect_infix_operator(ctx, e, origin)
           [] e.k = "array_literal_2d" ->
                collect_2d_array_literal(ctx, e, origin)
           [] e.k = "case" ->
                LET r == collect_case(ctx, e, origin)
                IN  alloc_expression(r.ctx, origin, r.v)
           [] e.k = "tuple_access" ->
                LET r == collect_tuple_access(ctx, e, origin)
                IN  alloc_expression(r.ctx, origin, r.v)

\* the domain of a type base is unbounded, bounded by an expression, a
\* type-inst identifier or an enum type-inst identifier; the result is the
\* collector and the Type that the caller allocates
collect_type_base(ctx, b, origin, is_array_dim, is_fn_parameter) ==
    LET o == At(origin, "domain", 1)
        inst == CASE b.any_type -> "none"
                  [] b.var_type = "none" -> "par"
                  [] OTHER -> b.var_type
        opt == CASE b.any_type -> "none"
                 [] b.opt_type = "none" -> "nonopt"
                 [] OTHER -> b.opt_type
        Known(ident) == \E t \in ctx.tiids.tiids : t.ident = ident
        Modified(ident, f(_)) ==
            {IF t.ident = ident THEN f(t) ELSE t : t \in ctx.tiids.tiids}
    IN  CASE b.domain.k = "bounded" ->
                IF /\ is_array_dim /\ b.var_type = "none" /\ b.opt_type = "none"
                   /\ b.domain.e.k = "anonymous"
                THEN IF is_fn_parameter
                     THEN LET c == alloc_pattern(ctx, o, [k |-> "Identifier", name |-> "_"])
                          IN  [ctx |-> [c EXCEPT !.tiids.anons =
                                            Append(@, [name |-> c.id, anonymous |-> TRUE,
                                                       is_enum |-> TRUE,
                                                       is_varifiable |-> TRUE,
                                                       is_indexable |-> FALSE])],
                               v |-> [k |-> "AnonymousTypeInstVar", inst |-> "par",
                                      opt |-> "nonopt", pattern |-> c.id]]
                     ELSE [ctx |-> ctx, v |-> [k |-> "Any"]]
                ELSE LET c == collect_expression(ctx, b.domain.e, o)
                     IN  [ctx |-> c,
                          v |-> [k |-> "Bounded", inst |-> b.var_type, opt |-> b.opt_type,
                                 domain |-> c.id]]
          [] b.domain.k = "unbounded" ->
                [ctx |-> ctx,
                 v |-> [k |-> "Primitive",
                        inst |-> IF b.var_type = "none" THEN "par" ELSE b.var_type,
                        opt |-> IF b.opt_type = "none" THEN "nonopt" ELSE b.opt_type,
                        primitive_type |-> b.domain.primitive_type]]
          [] b.domain.k = "type_inst_identifier" ->
                LET ident == b.domain.name
                    p == alloc_pattern(ctx, o, [k |-> "Identifier", name |-> ident])
                    modify(t) ==
                        [t EXCEPT !.d.is_varifiable = @ \/ inst = "var" \/ is_array_dim,
                                  !.d.is_indexable = @ \/ is_array_dim,
                                  !.in_param = @ \/ is_fn_parameter]
                    inserted ==
                        IF Known(ident)
                        THEN Modified(ident, modify)
                        ELSE ctx.tiids.tiids
                             \cup {[ident |-> ident, in_param |-> is_fn_parameter,
                                    d |-> [name |-> p.id, anonymous |-> FALSE,
                                           is_enum |-> FALSE,
                                           is_varifiable |-> inst = "var" \/ is_array_dim,
                                           is_indexable |-> is_array_dim]]}
                    c == alloc_expression([p EXCEPT !.tiids.tiids = inserted], o,
                                          [k |-> "Identifier", name |-> ident])
                IN  [ctx |-> c,
                     v |-> [k |-> "Bounded", inst |-> inst, opt |-> opt, domain |-> c.id]]
          [] b.domain.k = "type_inst_enum_identifier" ->
                LET ident == b.domain.name
                    p == alloc_pattern(ctx, o, [k |-> "Identifier", name |-> ident])
                    modify(t) ==
                        [t EXCEPT !.d.is_enum = TRUE, !.in_param = @ \/ is_fn_parameter]
                    inserted ==
                        IF Known(ident)
                        THEN Modified(ident, modify)
                        ELSE ctx.tiids.tiids
                             \cup {[ident |-> ident, in_param |-> is_fn_parameter,
                                    d |-> [name |-> p.id, anonymous |-> FALSE,
                                           is_enum |-> TRUE, is_varifiable |-> TRUE,
                                           is_indexable |-> FALSE]]}
                    c == alloc_expression([p EXCEPT !.tiids.tiids = inserted], o,
                                          [k |-> "Identifier", name |-> ident])
                IN  [ctx |-> c,
                     v |-> [k |-> "Bounded", inst |-> inst, opt |-> opt, domain |-> c.id]]

RECURSIVE collect_type_with_tiids(_, _, _, _, _)
\* the types of the surface universe: missing, array type, type base and any
collect_type_with_tiids(ctx, t, origin, is_array_dim, is_fn_parameter) ==
    IF t.k = "missing"
    THEN alloc_type(ctx, origin, [k |-> "Missing"])
    ELSE CASE t.k = "array_type" ->
                LET RECURSIVE dims(_, _, _)
                    dims(c, j, ids) ==
                        IF j > Len(t.dimensions)
                        THEN [ctx |-> c, ids |-> ids]
                        ELSE LET dim == collect_type_with_tiids(
                                            c, t.dimensions[j], At(origin, "dimension", j),
                                            TRUE, is_fn_parameter)
                             IN  dims(dim, j + 1, Append(ids, dim.id))
                    ds == dims(ctx, 1, <<>>)
                    dimensions == IF Len(ds.ids) = 1
                                  THEN [ds.ctx EXCEPT !.id = ds.ids[1]]
                                  ELSE alloc_type(ds.ctx, origin,
                                                  [k |-> "Tuple", fields |-> ds.ids])
                    element == collect_type_with_tiids(dimensions, t.element,
                                                       At(origin, "element", 1),
                                                       FALSE, is_fn_parameter)
                IN  alloc_type(element, origin,
                               [k |-> "Array", dimensions |-> dimensions.id,
                                element |-> element.id])
           [] t.k = "type_base" ->
                LET r == collect_type_base(ctx, t, origin, is_array_dim, is_fn_parameter)
                IN  alloc_type(r.ctx, origin, r.v)
           [] t.k = "any_type" ->
                alloc_type(ctx, origin, [k |-> "Any"])

\* collect_type works on a TypeInstIdentifiers of its own
collect_type(ctx, t, origin) ==
    [collect_type_with_tiids([ctx EXCEPT !.tiids = TypeInstIdentifiersDefault],
                             t, origin, FALSE, FALSE)
        EXCEPT !.tiids = ctx.tiids]

\* into_vec that keeps the identifiers that occur in no parameter
into_vec_unfiltered(tiids) ==
    LET RECURSIVE sort_by_key(_)
        sort_by_key(ds) ==
            IF ds = {}
            THEN <<>>
            ELSE LET first == CHOOSE d \in ds : \A e \in ds : d.name <= e.name
                 IN  <<first>> \o sort_by_key(ds \ {first})
    IN  sort_by_key({t.d : t \in tiids.tiids}
                    \cup {tiids.anons[j] : j \in DOMAIN tiids.anons})

\* the declarations of the identifiers that occur in a parameter and the
\* anonymous ones, sorted by their pattern
into_vec(tiids) ==
    LET RECURSIVE sort_by_key(_)
        sort_by_key(ds) ==
            IF ds = {}
            THEN <<>>
            ELSE LET first == CHOOSE d \in ds : \A e \in ds : d.name <= e.name
                 IN  <<first>> \o sort_by_key(ds \ {first})
    IN  sort_by_key({t.d : t \in {u \in tiids.tiids : u.in_param}}
                    \cup {tiids.anons[j] : j \in DOMAIN tiids.anons})

\* ------------------------------------------- lowering: the ItemCollectors
\* the ItemCollector of either surface syntax before the first item
ItemCollectorNew ==
    [items |-> <<>>, source_map |-> {}, diagnostics |-> <<>>,
     branching_annotations |-> <<>>, goal |-> [k |-> "satisfy"], panicked |-> FALSE]

\* SourceMap::add_from_item_data: the origins of the item's arenas
add_from_item_data(sm, it, data) ==
    sm \cup {[sort |-> e.sort, item |-> it, id |-> e.id, origin |-> e.origin] : e \in data}

\* ctx.finish(), the insertion of the item into the model and into its item
\* list, and the two source map calls that follow; a collector that
\* panicked unwinds instead
push_item(self, kind, ctx, origin) ==
    IF ctx.panicked
    THEN [self EXCEPT !.panicked = TRUE]
    ELSE LET it == Len(self.items) + 1
         IN  [self EXCEPT
                !.items = Append(@, [kind |-> kind, fields |-> ctx.fields,
                                     data |-> [expressions |-> ctx.expressions,
                                               types |-> ctx.types,
                                               patterns |-> ctx.patterns]]),
                !.diagnostics = ctx.diagnostics,
                !.source_map = add_from_item_data(
                                    @ \cup {[sort |-> "item", item |-> it, id |-> 0,
                                              origin |-> origin]},
                                    it, ctx.source_map)]

\* the id just computed becomes a field of the item
with_field(ctx, name) == [ctx EXCEPT !.fields = Append(@, <<name, ctx.id>>)]

\* one call of the collector per node, in order
Each(op, name, nodes, origin) ==
    [k \in DOMAIN nodes |->
        [op |-> op, field |-> name, node |-> nodes[k], origin |-> At(origin, name, k)]]

\* one call of the collector with the origin given
Call(op, name, node, origin) ==
    <<[op |-> op, field |-> name, node |-> node, origin |-> origin]>>

RECURSIVE Concat(_, _)
Concat(ss, k) == IF k > Len(ss) THEN <<>> ELSE ss[k] \o Concat(ss, k + 1)

RECURSIVE enum_definition(_, _, _)
\* the loop of collect_assignment over the right-hand side of an assignment
\* to an enumeration: pending is the todo stack of [e, origin],
\* definition the constructors found so far; at the end the reversed
\* definition becomes a field of the item
enum_definition(ctx, pending, definition) ==
    IF pending = <<>>
    THEN [ctx EXCEPT !.fields = Append(@, <<"definition",
                                            [j \in DOMAIN definition |->
                                                definition[Len(definition) + 1 - j]]>>)]
    ELSE LET e == pending[Len(pending)].e
             o == pending[Len(pending)].origin
             rest == SubSeq(pending, 1, Len(pending) - 1)
         IN  CASE e.k = "identifier" ->
                    LET c == collect_pattern(ctx, e, o)
                    IN  enum_definition(c, rest,
                                        Append(definition, [k |-> "Atom", pattern |-> c.id]))
               [] e.k = "set_literal" ->
                    enum_definition(ctx,
                        rest \o [j \in DOMAIN e.members |->
                                    [e |-> e.members[j], origin |-> At(o, "member", j)]],
                        definition)
               [] e.k = "call" /\ e.function.k = "identifier" ->
                    LET RECURSIVE parameters(_, _, _)
                        parameters(c, j, ps) ==
                            IF j > Len(e.arguments)
                            THEN [ctx |-> c, ids |-> ps]
                            ELSE LET domain == collect_expression(c, e.arguments[j],
                                                                  At(o, "argument", j))
                                     t == alloc_type(domain, At(o, "argument", j),
                                                     [k |-> "Bounded", domain |-> domain.id])
                                 IN  parameters(t, j + 1, Append(ps, t.id))
                        ps == parameters(ctx, 1, <<>>)
                        i == At(o, "function", 1)
                    IN  IF e.function.name = "_"
                        THEN LET c == alloc_pattern(ps.ctx, i, [k |-> "Anonymous"])
                             IN  enum_definition(c, rest,
                                    Append(definition,
                                           [k |-> "Anonymous", pattern |-> c.id,
                                            parameters |-> ps.ids]))
                        ELSE LET c == alloc_pattern(ps.ctx, i,
                                        [k |-> "Identifier", name |-> e.function.name])
                                 d == alloc_pattern(c, i,
                                        [k |-> "Identifier", name |-> e.function.name,
                                         inversed |-> TRUE])
                             IN  enum_definition(d, rest,
                                    Append(definition,
                                           [k |-> "Function", constructor |-> c.id,
                                            destructor |-> d.id, parameters |-> ps.ids]))
               [] e.k = "call" /\ e.function.k # "identifier" ->
                    enum_definition(ctx, rest, definition)
               [] e.k = "infix_operator" ->
                    enum_definition(ctx,
                        rest \o <<[e |-> e.left, origin |-> At(o, "left", 1)],
                                  [e |-> e.right, origin |-> At(o, "right", 1)]>>,
                        definition)
               [] OTHER ->
                    enum_definition(
                        add_diagnostic(ctx, "SyntaxError", o,
                                       "Expression not valid in enumeration assignment"),
                        rest, definition)

RECURSIVE collect_fields(_, _, _)
\* the calls an item collector makes on its ExpressionCollector, from call k on
collect_fields(ctx, steps, k) ==
    IF k > Len(steps)
    THEN ctx
    ELSE LET s == steps[k]
         IN  IF s.op = "into_vec"
             THEN collect_fields(
                    [ctx EXCEPT !.fields = Append(@, <<s.field, into_vec(ctx.tiids)>>)],
                    steps, k + 1)
             ELSE IF s.op = "enum_definition"
             THEN collect_fields(
                    enum_definition(ctx, <<[e |-> s.node, origin |-> s.origin]>>, <<>>),
                    steps, k + 1)
             ELSE IF s.op = "add_diagnostic"
             THEN collect_fields(add_diagnostic(ctx, s.node.kind, s.origin, s.node.msg),
                                 steps, k + 1)
             ELSE collect_fields(
                    with_field(CASE s.op = "collect_expression" ->
                                    collect_expression(ctx, s.node, s.origin)
                            [] s.op = "collect_pattern" ->
                                    collect_pattern(ctx, s.node, s.origin)
                            [] s.op = "collect_type" ->
                                    collect_type(ctx, s.node, s.origin)
                            [] s.op = "collect_return_type" ->
                                    collect_type_with_tiids(ctx, s.node, s.origin,
                                                            FALSE, FALSE)
                            [] s.op = "collect_parameter_type" ->
                                    collect_type_with_tiids(ctx, s.node, s.origin,
                                                            FALSE, TRUE)
                            [] s.op = "alloc_pattern" ->
                                    alloc_pattern(ctx, s.origin, s.node)
                            [] s.op = "alloc_type" ->
                                    alloc_type(ctx, s.origin, s.node),
                          s.field),
                    steps, k + 1)

\* ---------------------------------------- lowering: MiniZinc item kinds
\* each collector gives the kind of the HIR item and the calls that build it
collect_annotation(a, origin) ==
    [kind |-> "Annotation",
     steps |->
        Call("alloc_pattern", "constructor", [k |-> "Identifier", name |-> a.id],
             At(origin, "id", 1))
        \o IF a.parameters # <<>>
           THEN Call("alloc_pattern", "destructor",
                     [k |-> "Identifier", name |-> a.id, inversed |-> TRUE],
                     At(origin, "id", 1))
                \o Concat([k \in DOMAIN a.parameters[1] |->
                            Each("collect_pattern", "pattern", a.parameters[1][k].pattern,
                                 At(origin, "parameter", k))
                            \o Each("collect_type", "declared_type",
                                    <<a.parameters[1][k].declared_type>>,
                                    At(origin, "parameter", k))], 1)
           ELSE <<>>]

\* an assignment to an enumeration hands its right-hand side to the loop of
\* enum_definition
collect_assignment(a, origin, enumeration_names) ==
    IF a.assignee.k = "identifier" /\ a.assignee.name \in enumeration_names
    THEN [kind |-> "EnumAssignment",
          steps |->
            Each("collect_expression", "assignee", <<a.assignee>>, origin)
            \o Call("enum_definition", "definition", a.definition,
                    At(origin, "definition", 1))]
    ELSE [kind |-> "Assignment",
          steps |->
            Each("collect_expression", "assignee", <<a.assignee>>, origin)
            \o Each("collect_expression", "definition", <<a.definition>>, origin)]

collect_constraint(c, origin) ==
    [kind |-> "Constraint",
     steps |->
        Each("collect_expression", "annotations", c.annotations, origin)
        \o Each("collect_expression", "expression", <<c.expression>>, origin)]

collect_declaration(d, origin) ==
    [kind |-> "Declaration",
     steps |->
        Each("collect_pattern", "pattern", <<d.pattern>>, origin)
        \o Each("collect_type", "declared_type", <<d.declared_type>>, origin)
        \o Each("collect_expression", "annotations", d.annotations, origin)
        \o Each("collect_expression", "definition", d.definition, origin)]

collect_enumeration(e, origin) ==
    [kind |-> "Enumeration",
     steps |->
        Call("collect_pattern", "pattern", [k |-> "identifier", name |-> e.id],
             At(origin, "id", 1))
        \o Concat([k \in DOMAIN e.cases |->
            LET case == e.cases[k]
                o == At(origin, "case", k)
            IN  CASE case.k = "members" ->
                        Each("collect_pattern", "case", case.members, o)
                  [] case.k = "constructor" ->
                        Each("collect_type", "parameter", case.parameters, o)
                        \o Call("alloc_pattern", "constructor",
                                [k |-> "Identifier", name |-> case.id], At(o, "id", 1))
                        \o Call("alloc_pattern", "destructor",
                                [k |-> "Identifier", name |-> case.id, inversed |-> TRUE],
                                At(o, "id", 1))
                  [] case.k = "anonymous" ->
                        Call("collect_pattern", "case", [k |-> "anonymous"],
                             At(o, "anonymous", 1))
                        \o Each("collect_type", "parameter", case.parameters, o)], 1)
        \o Each("collect_expression", "annotations", e.annotations, origin)]

\* the parameters of a function or predicate item
collect_parameters(ps, origin) ==
    Concat([k \in DOMAIN ps |->
        Each("collect_parameter_type", "declared_type", <<ps[k].declared_type>>,
             At(origin, "parameter", k))
        \o Each("collect_expression", "annotations", ps[k].annotations,
                At(origin, "parameter", k))
        \o Each("collect_pattern", "pattern", ps[k].pattern,
                At(origin, "parameter", k))], 1)

collect_function(f, origin) ==
    [kind |-> "Function",
     steps |->
        Each("collect_expression", "annotations", f.annotations, origin)
        \o Each("collect_expression", "body", f.body, origin)
        \o Call("collect_pattern", "pattern", [k |-> "identifier", name |-> f.id],
                At(origin, "id", 1))
        \o Each("collect_return_type", "return_type", <<f.return_type>>, origin)
        \o collect_parameters(f.parameters, origin)
        \o Call("into_vec", "type_inst_vars", <<>>, origin)]

collect_output(i, origin) ==
    [kind |-> "Output",
     steps |->
        Each("collect_expression", "section", i.section, origin)
        \o Each("collect_expression", "expression", <<i.expression>>, origin)]

collect_predicate(f, origin) ==
    [kind |-> "Function",
     steps |->
        Each("collect_expression", "annotations", f.annotations, origin)
        \o Each("collect_expression", "body", f.body, origin)
        \o Call("collect_pattern", "pattern", [k |-> "identifier", name |-> f.id],
                At(origin, "id", 1))
        \o Call("alloc_type", "return_type",
                [k |-> "Primitive", var |-> f.declared_type = "predicate"], origin)
        \o collect_parameters(f.parameters, origin)
        \o Call("into_vec", "type_inst_vars", <<>>, origin)]

collect_solve(s, origin) ==
    [kind |-> "Solve",
     steps |->
        Each("collect_expression", "annotations", s.annotations, origin)
        \o IF s.goal.k = "satisfy"
           THEN <<>>
           ELSE Call("alloc_pattern", "pattern", [k |-> "Identifier", name |-> "objective"],
                     At(origin, "objective", 1))
                \o Each("collect_expression", "objective", <<s.goal.objective>>, origin)]

collect_type_alias(t, origin) ==
    [kind |-> "TypeAlias",
     steps |->
        Each("collect_expression", "annotations", t.annotations, origin)
        \o Call("collect_pattern", "name", [k |-> "identifier", name |-> t.name],
                At(origin, "name", 1))
        \o Each("collect_type", "aliased_type", <<t.aliased_type>>, origin)]

collect_item(self, item, origin, enumeration_names) ==
    IF item.k = "include"
    THEN self
    ELSE LET c == CASE item.k = "annotation" -> collect_annotation(item, origin)
                    [] item.k = "assignment" ->
                            collect_assignment(item, origin, enumeration_names)
                    [] item.k = "constraint" -> collect_constraint(item, origin)
                    [] item.k = "declaration" -> collect_declaration(item, origin)
                    [] item.k = "enumeration" -> collect_enumeration(item, origin)
                    [] item.k = "function" -> collect_function(item, origin)
                    [] item.k = "output" -> collect_output(item, origin)
                    [] item.k = "predicate" -> collect_predicate(item, origin)
                    [] item.k = "solve" -> collect_solve(item, origin)
                    [] item.k = "type_alias" -> collect_type_alias(item, origin)
         IN  push_item(self, c.kind,
                       collect_fields(ExpressionCollectorNew(self.diagnostics), c.steps, 1),
                       origin)

\* ------------------------------------------ lowering: E-prime item kinds
\* IntegerLiteral::value: the text parsed as i64 and unwrapped
IntegerLiteralValue(i) ==
    IF i.parse.ok THEN [panic |-> FALSE, v |-> i.parse.v] ELSE [panic |-> TRUE, v |-> 0]

\* the E-prime ExpressionCollector on the three kinds of expression
eprime_collect_expression(ctx, e, origin) ==
    IF ctx.panicked
    THEN ctx
    ELSE CASE e.k = "boolean_literal" ->
                alloc_expression(ctx, origin, [k |-> "BooleanLiteral", v |-> e.value])
           [] e.k = "identifier" ->
                alloc_expression(ctx, origin, [k |-> "Identifier", name |-> e.name])
           [] e.k = "integer_literal" ->
                IF IntegerLiteralValue(e).panic
                THEN [ctx EXCEPT !.panicked = TRUE]
                ELSE alloc_expression(ctx, origin,
                        [k |-> "IntegerLiteral", v |-> IntegerLiteralValue(e).v])

collect_domain(ctx, d, origin) ==
    alloc_type(ctx, origin, [k |-> "Primitive", name |-> d.name])

alloc_ident_pattern(ctx, origin, name) ==
    alloc_pattern(ctx, origin, [k |-> "Identifier", name |-> name])

collect_const_definition(self, c, origin) ==
    LET assignee == with_field(eprime_collect_expression(ExpressionCollectorNew(self.diagnostics),
                              [k |-> "identifier", name |-> c.name], At(origin, "name", 1)),
                          "assignee")
        definition == with_field(eprime_collect_expression(assignee, c.definition,
                                                      At(origin, "definition", 1)),
                            "definition")
    IN  push_item(self, "Assignment", definition, origin)

\* collect_declarations that declares the first name only
collect_declarations_first(self, names, domain, origin, k) ==
    IF k > Len(names)
    THEN self
    ELSE LET declared_type == with_field(collect_domain(ExpressionCollectorNew(self.diagnostics),
                                                   domain, At(origin, "domain", 1)),
                                    "declared_type")
             pattern == with_field(alloc_ident_pattern(declared_type, At(origin, "name", k),
                                                  names[k]),
                              "pattern")
         IN  push_item(self, "Declaration", pattern, At(origin, "name", k))

RECURSIVE collect_declarations(_, _, _, _, _)
\* the loop over the names of a declaration, from name k on
collect_declarations(self, names, domain, origin, k) ==
    IF k > Len(names)
    THEN self
    ELSE LET declared_type == with_field(collect_domain(ExpressionCollectorNew(self.diagnostics),
                                                   domain, At(origin, "domain", 1)),
                                    "declared_type")
             pattern == with_field(alloc_ident_pattern(declared_type, At(origin, "name", k),
                                                  names[k]),
                              "pattern")
         IN  collect_declarations(
                push_item(self, "Declaration", pattern, At(origin, "name", k)),
                names, domain, origin, k + 1)

collect_constraint_expression(self, expr, origin) ==
    IF self.panicked
    THEN self
    ELSE push_item(self, "Constraint",
                   with_field(eprime_collect_expression(ExpressionCollectorNew(self.diagnostics),
                                                   expr, origin),
                         "expression"),
                   origin)

collect_param_declaration(self, p, origin) ==
    LET declared == collect_declarations(self, p.names, p.domain, origin, 1)
    IN  IF p.wheres # <<>>
        THEN collect_constraint_expression(declared, p.wheres[1], At(origin, "where", 1))
        ELSE declared

collect_decision_declaration(self, d, origin) ==
    collect_declarations(self, d.names, d.domain, origin, 1)

RECURSIVE eprime_collect_constraint(_, _, _, _)
\* the loop over the expressions of a constraint item, from expression k on
eprime_collect_constraint(self, c, origin, k) ==
    IF k > Len(c.expressions)
    THEN self
    ELSE eprime_collect_constraint(
            collect_constraint_expression(self, c.expressions[k],
                                          At(origin, "expression", k)),
            c, origin, k + 1)

collect_branching(self, b) ==
    [self EXCEPT !.branching_annotations = <<b.branching_array>>]

collect_domain_alias(self, d, origin) ==
    LET name == with_field(alloc_ident_pattern(ExpressionCollectorNew(self.diagnostics),
                                          origin, d.name),
                      "name")
        aliased_type == with_field(collect_domain(name, d.definition,
                                             At(origin, "definition", 1)),
                              "aliased_type")
    IN  push_item(self, "TypeAlias", aliased_type, origin)

eprime_collect_output(self, i, origin) ==
    push_item(self, "Output",
              with_field(eprime_collect_expression(ExpressionCollectorNew(self.diagnostics),
                                              i.expression, At(origin, "expression", 1)),
                    "expression"),
              origin)

eprime_collect_item(self, item, origin) ==
    CASE item.k = "constraint" -> eprime_collect_constraint(self, item, origin, 1)
      [] item.k = "const_definition" -> collect_const_definition(self, item, origin)
      [] item.k = "decision_declaration" -> collect_decision_declaration(self, item, origin)
      [] item.k = "param_declaration" -> collect_param_declaration(self, item, origin)
      [] item.k = "domain_alias" -> collect_domain_alias(self, item, origin)
      [] item.k = "solve" -> [self EXCEPT !.goal = item.goal]
      [] item.k = "branching" -> collect_branching(self, item)
      [] item.k = "heuristic" -> self
      [] item.k = "output" -> eprime_collect_output(self, item, origin)

\* ------------------------------------------------------------ lower_items
NoAst == [tag |-> "None", kind |-> "", items |-> <<>>, enumeration_names |-> {}]
\* a parsed model of the given surface syntax, with db.enumeration_names()
ConstraintModel(kind, items, names) ==
    [tag |-> "Ok", kind |-> kind, items |-> items, enumeration_names |-> names]

NotLowered == [tag |-> "None", items |-> <<>>, source_map |-> {}, errors |-> <<>>]
Lowered(m, sm, e) == [tag |-> "Done", items |-> m, source_map |-> sm, errors |-> e]

\* db.ast(model) is an error
LowerAstError ==
    /\ ast.tag = "Err"
    /\ lowered = NotLowered
    /\ lowered' = Lowered(<<>>, {}, <<[kind |-> "FileError", at |-> <<>>, msg |-> "ast"]>>)
    /\ UNCHANGED <<world, resolver, report, calls, ast, next_item, collector>>

\* one turn of the loop over the items of a MiniZinc model
CollectItemMzn ==
    /\ ast.tag = "Ok"
    /\ ast.kind = "mzn"
    /\ lowered = NotLowered
    /\ next_item <= Len(ast.items)
    /\ collector' = collect_item(collector, ast.items[next_item],
                                 At(<<>>, "item", next_item), ast.enumeration_names)
    /\ next_item' = next_item + 1
    /\ UNCHANGED <<world, resolver, report, calls, ast, lowered>>

\* one turn of the loop over the items of an E-prime model
CollectItemEPrime ==
    /\ ast.tag = "Ok"
    /\ ast.kind = "eprime"
    /\ lowered = NotLowered
    /\ next_item <= Len(ast.items)
    /\ LET self == eprime_collect_item(collector, ast.items[next_item],
                                       At(<<>>, "item", next_item))
       IN  /\ collector' = self
           /\ lowered' = IF self.panicked THEN [lowered EXCEPT !.tag = "Panic"] ELSE lowered
    /\ next_item' = next_item + 1
    /\ UNCHANGED <<world, resolver, report, calls, ast>>

\* ctx.finish() after the last item; lower_items calls nothing between the
\* loop and finish, for either surface syntax
LowerFinish ==
    /\ ast.tag = "Ok"
    /\ lowered = NotLowered
    /\ next_item > Len(ast.items)
    /\ lowered' = Lowered(collector.items, collector.source_map, collector.diagnostics)
    /\ UNCHANGED <<world, resolver, report, calls, ast, next_item, collector>>

\* ------------------------------------------------------------------ worlds
SeqsUpTo(S, n) == UNION {[1..k -> S] : k \in 0..n}

\* search directories in the caller's order
SearchDirChoices == {s \in SeqsUpTo(Dirs, 2) : \A i, j \in 1..Len(s) : s[i] = s[j] => i = j}

MkFs(g) == [p \in AllPaths |-> IF p \in DOMAIN g THEN g[p] ELSE Absent]

P1 == <<"d1", "a">>
P2 == <<"d1", "b">>
P3 == <<"d2", "a">>
P4 == <<"d2", "b">>
LibFs(d) == (<<d, StdlibName>> :> MznFile(<<>>))
            @@ (<<d, SolverRedefName>> :> MznFile(<<>>))
            @@ (<<d, EPrimeGlobalsName>> :> MznFile(<<>>))

DownstreamPhases ==
    {"syntax", "lowering", "scope", "type", "exhaustiveness", "global", "toposort", "validate"}

InitWorld(sd, ign, sh, g, roots) ==
    /\ search_dirs = sd
    /\ ignore_stdlib = ign
    /\ share_ok = sh
    /\ fs = MkFs(g)
    /\ input_models = roots

\* include graphs over three paths, with links, and the library in place
GraphItems == SeqsUpTo({IncAbs(P2), IncAbs(P3)}, MaxIncludes)
InitGraph ==
    \E e1 \in {MznFile(i) : i \in GraphItems},
       e2 \in {MznFile(<<i>>) : i \in {IncAbs(P1), IncAbs(P2), IncAbs(P3)}}
                \cup {MznFile(<<>>), Absent, Unreadable, EPrimeFile},
       e3 \in {Absent, LinkTo(P1), LinkTo(P2), MznFile(<<>>)},
       roots \in {r \in SeqsUpTo({P1, P2, P3}, MaxInputs) :
                        \A i, j \in DOMAIN r : r[i] = r[j] => i = j} :
        InitWorld(<<"d1">>, FALSE, TRUE,
                  (P1 :> e1) @@ (P2 :> e2) @@ (P3 :> e3) @@ LibFs("d1"), roots)

\* one root with every kind of include item, resolved against the directories
ResolveItems ==
    SeqsUpTo({IncAbs(P2), IncAbs(P4), IncDot("b"), IncRel("b"), IncRel("a"), OtherItem},
             MaxIncludes)
InitResolve ==
    \E sd \in SearchDirChoices, root \in {P1, P3, Inline}, items \in ResolveItems,
       e2 \in {Absent, MznFile(<<>>)},
       e4 \in {Absent, MznFile(<<>>)} :
        InitWorld(sd, TRUE, TRUE,
                  (root :> MznFile(items)) @@ (P2 :> e2) @@ (P4 :> e4), <<root>>)

\* every placement of the library files, with a small root
InitStdlib ==
    \E sd \in SearchDirChoices, ign \in BOOLEAN, sh \in BOOLEAN,
       lib \in [Dirs \X LibNames -> {Absent, MznFile(<<>>)}],
       e1 \in {MznFile(<<>>), EPrimeFile}, roots \in {<<>>, <<P1>>} :
        InitWorld(sd, ign, sh, (P1 :> e1) @@ lib, roots)

\* two roots with items; no, one, two or all phases fail
DiagItems == SeqsUpTo({OtherItem, CaseItem}, MaxIncludes)
InitDiag ==
    \E items \in DiagItems,
       e2 \in {MznFile(<<>>), MznFile(<<OtherItem>>), MznFile(<<CaseItem>>)} :
        InitWorld(<<"d1">>, TRUE, TRUE, (P1 :> MznFile(items)) @@ (P2 :> e2), <<P2, P1>>)

\* one root whose items warn, with and without errors of its own
WarningPhases == {"scope_warning", "exhaustiveness_warning"}
WarnItems == SeqsUpTo({OtherItem, CaseItem, IncAbs(P4)}, MaxIncludes)
InitWarn ==
    \E items \in WarnItems, ign \in BOOLEAN :
        InitWorld(<<"d1">>, ign, TRUE, (P1 :> MznFile(items)), <<P1>>)

Init ==
    /\ \/ (InitGraph \/ InitResolve \/ InitStdlib) /\ diag = {}
       \/ InitDiag /\ diag \in {a \cup b : a, b \in {{}} \cup {{ph} : ph \in DownstreamPhases}}
                                \cup {DownstreamPhases}
       \/ InitWarn /\ diag \in {w \cup e : w \in SUBSET WarningPhases, e \in {{}, {"global"}}}
    /\ diagnostics = <<>>
    /\ reported = FALSE
    /\ warnings = <<>>
    /\ warned = FALSE
    /\ hir = NoHir
    /\ evaluated = [once |-> {}, again |-> {}]
    /\ requested = <<>>
    /\ pc = "start"
    /\ todo = <<>>
    /\ seen = {}
    /\ models = <<>>
    /\ errors = <<>>
    /\ cur = NoPath
    /\ idx = 0
    /\ result = NoResult
    /\ ast = NoAst
    /\ next_item = 0
    /\ collector = ItemCollectorNew
    /\ lowered = NotLowered

\* the steps of resolve_includes
ResolveIncludes ==
    \/ Start
    \/ PopSeen
    \/ PopErr
    \/ PopEPrime
    \/ PopMzn
    \/ IncludeItem
    \/ Return

Next ==
    \/ ResolveIncludes
    \/ AllErrors
    \/ AllWarnings
    \/ RunHirPhase

Spec == Init /\ [][Next]_vars

\* resolve_includes alone: it keeps taking steps while one is enabled
FairSpec == Init /\ [][ResolveIncludes]_vars /\ WF_vars(ResolveIncludes)

\* ------------------------------------------------------- lowering: worlds
\* what value() of a numeric literal returns
Parsed(v) == [ok |-> TRUE, v |-> v]
ParseError == [ok |-> FALSE]

\* MiniZinc expressions: atoms, tuple accesses, case expressions, 2-D array
\* literals whose rows hold up to MaxCols members, 1-D array literals of
\* up to MaxMembers members, each with or without an index, and infix
\* operators over atoms, calls, array literals and infix operators
MznExpressions ==
    LET Missing == [k |-> "missing"]
        X == [k |-> "identifier", name |-> "x"]
        IntLit(r) == [k |-> "integer_literal", value |-> r]
        FloatLit(r) == [k |-> "float_literal", value |-> r]
        Literals == {IntLit(Parsed(3)), IntLit(ParseError), FloatLit(Parsed("1.5")), FloatLit(ParseError)}
        Numeric == {[k |-> "numeric_literal", negated |-> n, value |-> v] :
                        n \in BOOLEAN, v \in Literals \cup {[k |-> "infinity"]}}
        Access(f, t) == [k |-> "tuple_access", field |-> [value |-> f], tuple |-> t]
        Row == {[index |-> ix, members |-> ms] :
                    ix \in {<<>>, <<X>>},
                    ms \in UNION {[1..n -> {IntLit(Parsed(3))}] : n \in 0..MaxCols}}
               \cup {[index |-> <<>>, members |-> <<IntLit(ParseError)>>]}
        Infix(op, l, r) == [k |-> "infix_operator", left |-> l, operator |-> op, right |-> r]
        Operands == {X, IntLit(ParseError), Infix("==", X, IntLit(Parsed(3))),
                     Infix("+", Infix("-", X, X), X),
                     [k |-> "call", function |-> X, arguments |-> <<Infix("==", X, X), X>>],
                     [k |-> "array_literal",
                      members |-> <<[indices |-> <<Infix("+", X, X)>>,
                                     value |-> Infix("==", X, X)]>>]}
        Member == {[indices |-> ix, value |-> v] :
                        ix \in {<<>>, <<IntLit(Parsed(2))>>}, v \in {X, IntLit(Parsed(3))}}
    IN  {Missing, X, [k |-> "anonymous"]} \cup Literals
        \cup {Access(f, t) : f \in {Parsed(2), ParseError},
                             t \in {X, IntLit(Parsed(3)), IntLit(ParseError)}}
        \cup {Access(f, Access(g, X)) : f, g \in {Parsed(2), ParseError}}
        \cup {[k |-> "case", expression |-> e, cases |-> <<[pattern |-> p, value |-> v]>>] :
                e \in {X, IntLit(ParseError)},
                p \in {Missing, X, [k |-> "anonymous"]} \cup Numeric,
                v \in {IntLit(Parsed(3)), IntLit(ParseError)}}
        \cup {[k |-> "case", expression |-> X, cases |-> arms] :
                arms \in [1..2 -> {[pattern |-> p, value |-> X] : p \in Numeric}]}
        \cup {[k |-> "array_literal_2d", column_indices |-> ci, rows |-> rows] :
                ci \in UNION {[1..n -> {X}] : n \in 0..MaxCols},
                rows \in SeqsUpTo(Row, MaxRows)}
        \cup Operands \cup {Infix(op, l, r) : op \in {"+", "=="}, l \in Operands, r \in Operands}
        \cup {[k |-> "array_literal", members |-> ms] : ms \in SeqsUpTo(Member, MaxMembers)}
        \cup {[k |-> "array_literal",
               members |-> <<[indices |-> <<>>,
                              value |-> [k |-> "array_literal", members |-> ms]]>>] :
                ms \in SeqsUpTo(Member, 2)}

\* MiniZinc items of every kind
MznItems ==
    LET X == [k |-> "identifier", name |-> "x"]
        E == [k |-> "identifier", name |-> "E"]
        Int3 == [k |-> "integer_literal", value |-> Parsed(3)]
        BadInt == [k |-> "integer_literal", value |-> ParseError]
        AnyType == [k |-> "any_type"]
        Parameter == [declared_type |-> AnyType, annotations |-> <<X>>, pattern |-> <<X>>]
    IN  {[k |-> "include"],
         [k |-> "annotation", id |-> "a", parameters |-> <<>>],
         [k |-> "annotation", id |-> "a",
          parameters |-> <<<<[pattern |-> <<X>>, declared_type |-> AnyType],
                             [pattern |-> <<>>, declared_type |-> [k |-> "missing"]]>>>>],
         [k |-> "assignment", assignee |-> X, definition |-> Int3],
         [k |-> "assignment", assignee |-> E, definition |-> X],
         [k |-> "assignment", assignee |-> E, definition |-> Int3],
         [k |-> "constraint", annotations |-> <<X>>, expression |-> BadInt],
         [k |-> "declaration", pattern |-> X, declared_type |-> AnyType,
          annotations |-> <<>>, definition |-> <<Int3>>],
         [k |-> "enumeration", id |-> "E", annotations |-> <<X>>,
          cases |-> <<[k |-> "members", members |-> <<X, X>>],
                      [k |-> "constructor", id |-> "C", parameters |-> <<AnyType>>],
                      [k |-> "anonymous", parameters |-> <<AnyType>>]>>],
         [k |-> "function", id |-> "f", annotations |-> <<>>, body |-> <<X>>,
          return_type |-> AnyType, parameters |-> <<Parameter, Parameter>>],
         [k |-> "output", section |-> <<>>, expression |-> X],
         [k |-> "predicate", id |-> "p", annotations |-> <<X>>, body |-> <<>>,
          declared_type |-> "predicate", parameters |-> <<Parameter>>],
         [k |-> "solve", annotations |-> <<>>, goal |-> [k |-> "satisfy"]],
         [k |-> "solve", annotations |-> <<X>>,
          goal |-> [k |-> "minimize", objective |-> BadInt]],
         [k |-> "type_alias", name |-> "T", annotations |-> <<>>,
          aliased_type |-> [k |-> "missing"]]}

\* E-prime items of every kind; the text of TooBig is a number that no i64
\* holds
EPrimeItems ==
    LET X == [k |-> "identifier", name |-> "x"]
        Int3 == [k |-> "integer_literal", parse |-> Parsed(3)]
        TooBig == [k |-> "integer_literal", parse |-> ParseError]
        True == [k |-> "boolean_literal", value |-> TRUE]
        Domain == [name |-> "int"]
    IN  {[k |-> "constraint", expressions |-> es] :
            es \in {<<X>>, <<X, True>>, <<TooBig>>, <<X, TooBig>>, <<Int3, X>>}}
        \cup {[k |-> "const_definition", name |-> "c", definition |-> e] :
                e \in {Int3, TooBig, True}}
        \cup {[k |-> kind, names |-> ns, domain |-> Domain, wheres |-> <<>>] :
                kind \in {"decision_declaration", "param_declaration"},
                ns \in {<<"x">>, <<"x", "y">>}}
        \cup {[k |-> "param_declaration", names |-> <<"n", "m">>, domain |-> Domain,
               wheres |-> <<e>>] : e \in {X, TooBig}}
        \cup {[k |-> "domain_alias", name |-> "D", definition |-> Domain],
              [k |-> "solve", goal |-> [k |-> "satisfy"]],
              [k |-> "solve", goal |-> [k |-> "minimising", e |-> X]],
              [k |-> "branching", branching_array |-> X],
              [k |-> "heuristic"],
              [k |-> "output", expression |-> X]}

\* right-hand sides of an assignment to an enumeration: identifiers,
\* constructor calls, _(...), a call of something that is no identifier, an
\* integer, and set literals and infix operators over them
EnumDefinitions ==
    LET Ident(n) == [k |-> "identifier", name |-> n]
        Int3 == [k |-> "integer_literal", value |-> Parsed(3)]
        CallOf(f, as) == [k |-> "call", function |-> f, arguments |-> as]
        Leaves == {Ident("A"), Ident("B"), Int3,
                   CallOf(Ident("C"), <<Ident("x")>>),
                   CallOf(Ident("C"), <<Ident("x"), Int3>>),
                   CallOf(Ident("_"), <<Int3>>),
                   CallOf([k |-> "tuple_access", field |-> [value |-> Parsed(1)],
                           tuple |-> Ident("f")], <<Int3>>)}
        Sets == {[k |-> "set_literal", members |-> ms] : ms \in SeqsUpTo(Leaves, 2)}
        Infix(op, l, r) == [k |-> "infix_operator", left |-> l, operator |-> op, right |-> r]
        Parts == {Ident("A"), CallOf(Ident("C"), <<Ident("x")>>),
                  CallOf(Ident("C"), <<Infix("==", Ident("x"), Int3)>>),
                  [k |-> "set_literal", members |-> <<Ident("A"), Ident("B")>>],
                  [k |-> "set_literal", members |-> <<>>],
                  Infix("++", Ident("B"), Ident("A"))}
    IN  Leaves \cup Sets
        \cup {Infix(op, l, r) : op \in {"++", "+"}, l \in Parts, r \in Parts}
        \cup {[k |-> "set_literal", members |-> <<Infix("++", l, r), Ident("B")>>] :
                l \in Parts, r \in Parts}

\* function items whose return type and parameter types hold type-inst
\* identifiers ($T, $U), an enum type-inst identifier ($$E), int and _,
\* plain, behind var and as array dimensions
MznFunctions ==
    LET TypeBase(v, d) == [k |-> "type_base", var_type |-> v, opt_type |-> "none",
                           any_type |-> FALSE, domain |-> d]
        T == [k |-> "type_inst_identifier", name |-> "$T"]
        U == [k |-> "type_inst_identifier", name |-> "$U"]
        E == [k |-> "type_inst_enum_identifier", name |-> "$$E"]
        IntType == TypeBase("none", [k |-> "unbounded", primitive_type |-> "int"])
        Anon == TypeBase("none", [k |-> "bounded", e |-> [k |-> "anonymous"]])
        Array(ds, el) == [k |-> "array_type", dimensions |-> ds, element |-> el]
        ReturnTypes == {IntType, TypeBase("none", T), TypeBase("var", T), TypeBase("none", E),
                        Array(<<TypeBase("none", T)>>, TypeBase("none", U)),
                        Array(<<Anon>>, IntType)}
        ParameterTypes == {IntType, [k |-> "any_type"],
                           TypeBase("none", T), TypeBase("var", T), TypeBase("none", U),
                           [TypeBase("none", T) EXCEPT !.any_type = TRUE],
                           TypeBase("none", E), TypeBase("var", E),
                           Array(<<TypeBase("none", T)>>, IntType),
                           Array(<<TypeBase("none", E)>>, TypeBase("none", T)),
                           Array(<<Anon>>, TypeBase("var", U)),
                           Array(<<Anon, TypeBase("none", T)>>, IntType)}
    IN  {[k |-> "function", id |-> "f", annotations |-> <<>>, body |-> <<>>,
          return_type |-> r,
          parameters |-> [j \in DOMAIN ps |->
                            [declared_type |-> ps[j], annotations |-> <<>>,
                             pattern |-> <<>>]]] :
            r \in ReturnTypes, ps \in SeqsUpTo(ParameterTypes, MaxParams)}

\* lower_items on one model: MiniZinc items of every kind, one constraint
\* over every expression, one assignment to an enumeration for every
\* right-hand side, one function for every signature, E-prime items of every kind, or no syntax tree
LowerInit ==
    /\ InitWorld(<<>>, TRUE, TRUE, <<>>, <<>>)
    /\ diag = {}
    /\ diagnostics = <<>>
    /\ reported = FALSE
    /\ warnings = <<>>
    /\ warned = FALSE
    /\ hir = NoHir
    /\ evaluated = [once |-> {}, again |-> {}]
    /\ requested = <<>>
    /\ pc = "start"
    /\ todo = <<>>
    /\ seen = {}
    /\ models = <<>>
    /\ errors = <<>>
    /\ cur = NoPath
    /\ idx = 0
    /\ result = NoResult
    /\ \/ \E items \in SeqsUpTo(MznItems, MaxIncludes) : ast = ConstraintModel("mzn", items, {"E"})
       \/ \E e \in MznExpressions :
            ast = ConstraintModel("mzn", <<[k |-> "constraint", annotations |-> <<>>,
                                 expression |-> e]>>, {})
       \/ \E e \in EnumDefinitions :
            ast = ConstraintModel("mzn", <<[k |-> "assignment",
                                 assignee |-> [k |-> "identifier", name |-> "E"],
                                 definition |-> e]>>, {"E"})
       \/ \E f \in MznFunctions : ast = ConstraintModel("mzn", <<f>>, {})
       \/ \E items \in SeqsUpTo(EPrimeItems, MaxIncludes) : ast = ConstraintModel("eprime", items, {})
       \/ ast = [NoAst EXCEPT !.tag = "Err"]
    /\ next_item = 1
    /\ collector = ItemCollectorNew
    /\ lowered = NotLowered

LowerNext ==
    \/ LowerAstError
    \/ CollectItemMzn
    \/ CollectItemEPrime
    \/ LowerFinish

LowerSpec == LowerInit /\ [][LowerNext]_vars

\* ------------------------------------------------------- shared vocabulary
Range(s) == {s[i] : i \in DOMAIN s}
IsInclude(it) == it.k \in {"abs", "dot", "rel"}
Returned == pc = "done"
ReturnedOk == pc = "done" /\ result.tag = "Ok"
ErrorKinds == {errors[k].kind : k \in DOMAIN errors}
\* a search directory that holds both library files
BothIn(d) == Exists(<<d, StdlibName>>) /\ Exists(<<d, SolverRedefName>>)
StdlibEnabled == ~ignore_stdlib /\ share_ok
\* the library files the caller's search order selects
ExpectedStdlib ==
    IF StdlibEnabled /\ \E i \in DOMAIN search_dirs : BothIn(search_dirs[i])
    THEN LET i == CHOOSE i \in DOMAIN search_dirs :
                    /\ BothIn(search_dirs[i])
                    /\ \A j \in 1..(i - 1) : ~BothIn(search_dirs[j])
         IN  <<<<search_dirs[i], SolverRedefName>>, <<search_dirs[i], StdlibName>>>>
    ELSE <<>>
\* files an already resolved file leads to
Edges(f) ==
    LET m == Ast(f)
    IN  IF m.kind = "mzn"
        THEN UNION {Range(ResolveInclude(f, m.items[i])) :
                        i \in {j \in DOMAIN m.items : IsInclude(m.items[j])}}
        ELSE IF m.kind = "eprime" THEN Range(EPrimeGlobals)
        ELSE {}
RECURSIVE ReachFrom(_)
ReachFrom(S) ==
    LET T == S \cup UNION {Edges(f) : f \in S}
    IN  IF T = S THEN S ELSE ReachFrom(T)
Reachable == ReachFrom(Range(input_models) \cup Range(ExpectedStdlib))
CanonSet(S) == {Canonicalize(p) : p \in {q \in S : HasPath(q)}}

\* ---------------------------------------------------------------- claims
\* C1: the model list never holds two entries whose file paths canonicalize
\* to the same path, whatever the include graph and the path spellings.
C1_NoDuplicateModels ==
    /\ \A i, j \in DOMAIN models :
        (/\ HasPath(models[i]) /\ HasPath(models[j])
         /\ Canonicalize(models[i]) = Canonicalize(models[j])) => i = j
    /\ \A i, j \in DOMAIN result.models :
        (/\ HasPath(result.models[i]) /\ HasPath(result.models[j])
         /\ Canonicalize(result.models[i]) = Canonicalize(result.models[j])) => i = j

\* a root given under a second spelling was skipped after its file was taken
C1_Witness ==
    /\ ReturnedOk
    /\ \E p \in Range(input_models) :
        /\ Canonicalize(p) # p
        /\ p \notin Range(result.models)
        /\ Canonicalize(p) \in Range(result.models)

\* C2: resolve_includes terminates, also on self-includes and include
\* cycles: the work stack eventually is empty and the function returns.
C2_Terminates == <>(pc = "done" /\ todo = <<>>)

\* two files that include each other were both resolved
C2_Witness ==
    /\ Returned
    /\ \E m, n \in Range(models) :
        /\ m # n
        /\ n \in Edges(m)
        /\ m \in Edges(n)

\* the include items of model m that no directory resolves
MissingIncludes(m) ==
    {i \in DOMAIN Ast(m).items :
        /\ IsInclude(Ast(m).items[i])
        /\ ResolveInclude(m, Ast(m).items[i]) = <<>>}
ErrorCount(e) == Cardinality({k \in DOMAIN errors : errors[k] = e})

C4_ErrorsCollected ==
    Returned =>
        /\ (result.tag = "Ok") <=> (errors = <<>>)
        /\ result.tag = "Ok" => result.models = models
        /\ Len(errors) = 1 =>
            /\ result.tag = "Err"
            /\ result.error.kind # "MultipleErrors"
            /\ result.error = errors[1]
        /\ Len(errors) > 1 =>
            /\ result.tag = "Err"
            /\ result.error.kind = "MultipleErrors"
            /\ result.error.errors = errors
        /\ todo = <<>>
        /\ CanonSet(Range(input_models)) \subseteq seen
        /\ \A m \in Range(models) : CanonSet(Edges(m)) \subseteq seen
        /\ \A p \in seen : Ast(p).kind = "err" =>
            \E k \in DOMAIN errors :
                /\ errors[k].kind = "FileError"
                /\ Canonicalize(errors[k].file) = p

\* several errors were collected and models were still resolved
C4_Witness ==
    /\ Returned
    /\ result.tag = "Err"
    /\ result.error.kind = "MultipleErrors"
    /\ Len(result.error.errors) >= 2
    /\ Len(models) >= 2

C6_RootOrderPreserved ==
    ReturnedOk =>
        \A i, j \in DOMAIN input_models : \A a, b \in DOMAIN result.models :
            (/\ i < j
             /\ input_models[i] # input_models[j]
             /\ result.models[a] = input_models[i]
             /\ result.models[b] = input_models[j]) => a < b

\* no library file is queued, resolved or listed
NoStdlibFile ==
    \A p \in Range(todo) \cup seen \cup Range(models) :
        p[2] \notin {StdlibName, SolverRedefName}

\* C7 as stated: StandardLibraryNotFound exactly when the library is
\* enabled, the share directory exists and no search directory has both.
C7_NotFoundOnlyWithShareDir ==
    pc # "start" =>
        /\ ("StandardLibraryNotFound" \in ErrorKinds) <=>
            (/\ ~ignore_stdlib
             /\ share_ok
             /\ \A i \in DOMAIN search_dirs : ~BothIn(search_dirs[i]))
        /\ ignore_stdlib => NoStdlibFile

\* C7 amended: StandardLibraryNotFound exactly when the library is enabled
\* and the share directory is missing or no search directory has both
\* files; with ignore_stdlib nothing is queued and nothing reported.
C7_NotFoundWhenEnabled ==
    pc # "start" =>
        /\ ("StandardLibraryNotFound" \in ErrorKinds) <=>
            (/\ ~ignore_stdlib
             /\ \/ ~share_ok
                \/ \A i \in DOMAIN search_dirs : ~BothIn(search_dirs[i]))
        /\ ignore_stdlib => NoStdlibFile

\* the share directory is missing although a search directory has both files
C7_Witness ==
    /\ Returned
    /\ ~ignore_stdlib
    /\ ~share_ok
    /\ \E i \in DOMAIN search_dirs : BothIn(search_dirs[i])
    /\ "StandardLibraryNotFound" \in ErrorKinds

\* C8: both library files are queued from the first search directory, in the
\* caller's order, that holds both; other directories contribute nothing.
C8_FirstDirWithBoth ==
    [][pc = "start" =>
        /\ todo' = input_models \o ExpectedStdlib
        /\ StdlibEnabled =>
            \A k \in DOMAIN search_dirs :
                (\E p \in Range(todo') : p[1] = search_dirs[k] /\ p[2] \in LibNames) =>
                    /\ BothIn(search_dirs[k])
                    /\ \A j \in 1..(k - 1) : ~BothIn(search_dirs[j])]_vars

\* the first directory holds one of the files only, the second one both
C8_Witness ==
    /\ pc = "loop"
    /\ StdlibEnabled
    /\ Len(search_dirs) = 2
    /\ ~BothIn(search_dirs[1])
    /\ \/ Exists(<<search_dirs[1], StdlibName>>)
       \/ Exists(<<search_dirs[1], SolverRedefName>>)
    /\ BothIn(search_dirs[2])
    /\ <<search_dirs[2], StdlibName>> \in Range(todo)
    /\ <<search_dirs[2], SolverRedefName>> \in Range(todo)

\* what an include step did: the file it queued, or the error it recorded
Queued(f) == todo' = Append(todo, f) /\ errors' = errors
Refused == todo' = todo /\ Len(errors') = Len(errors) + 1
                        /\ errors'[Len(errors')].kind = "IncludeError"

\* C9: an absolute include is used as it is; ./name is resolved against the
\* directory of the including file only; any other include takes the first
\* search directory that has the file and the directory of the including
\* file only when no search directory has it.
C9_IncludeResolution ==
    [][pc = "items" =>
        LET item == Ast(cur).items[idx]
            own == <<cur[1], item.name>>
            hits == {i \in DOMAIN search_dirs : Exists(<<search_dirs[i], item.name>>)}
        IN  /\ item.k = "abs" => Queued(<<item.dir, item.name>>)
            /\ item.k = "dot" =>
                IF HasPath(cur) /\ Exists(own) THEN Queued(own) ELSE Refused
            /\ item.k = "rel" =>
                IF hits # {}
                THEN \E i \in hits : /\ \A j \in hits : i <= j
                                     /\ Queued(<<search_dirs[i], item.name>>)
                ELSE IF HasPath(cur) /\ Exists(own) THEN Queued(own) ELSE Refused]_vars

\* an include was taken from the including file's own directory although a
\* search directory was configured, and a ./ include ignored a search hit
C9_Witness ==
    /\ pc = "loop"
    /\ HasPath(cur)
    /\ todo # <<>>
    /\ idx > 1
    /\ idx - 1 \in DOMAIN Ast(cur).items
    /\ LET item == Ast(cur).items[idx - 1]
       IN  /\ item.k = "rel"
           /\ search_dirs # <<>>
           /\ \A i \in DOMAIN search_dirs : search_dirs[i] # cur[1]
           /\ Top = <<cur[1], item.name>>

\* ranks of the phases in the order the aggregator is described with
PhaseRank(ph) ==
    CASE ph = "resolve" -> 0
      [] ph = "syntax" -> 1
      [] ph = "lowering" -> 2
      [] ph = "scope" -> 3
      [] ph = "type" -> 4
      [] ph = "exhaustiveness" -> 5
      [] ph = "global" -> 6
      [] ph = "toposort" -> 7
      [] ph = "validate" -> 8
PerModelPhases == {"lowering", "scope", "type", "exhaustiveness"}
\* position of a model in the resolved list
ModelPos(m) == CHOOSE k \in DOMAIN result.models : result.models[k] = m
\* within one model: lowering, then the items' scope and type errors, then
\* the exhaustiveness errors
GroupRank(ph) ==
    CASE ph = "lowering" -> 1
      [] ph \in {"scope", "type"} -> 2
      [] ph = "exhaustiveness" -> 3

\* C10 as stated: no diagnostic of a later phase precedes one of an earlier
\* phase in the value of all_errors.
C10_PhaseOrdered ==
    reported =>
        \A a, b \in DOMAIN diagnostics :
            a < b => PhaseRank(diagnostics[a].phase) <= PhaseRank(diagnostics[b].phase)

\* C10 amended: a failed include resolution is reported alone; otherwise the
\* syntax errors come first, then one block per model in resolved order
\* (lowering errors, then per item its scope errors followed by its type
\* errors, then the exhaustiveness errors), then the global-scope,
\* topological-sort and validation errors.
C10_GroupedByModelAndItem ==
    reported =>
        /\ result.tag = "Err" =>
            diagnostics = <<Diagnostic("resolve", NoPath, 0, result.error)>>
        /\ result.tag = "Ok" =>
            \A a, b \in DOMAIN diagnostics :
                a < b =>
                    LET x == diagnostics[a]
                        y == diagnostics[b]
                    IN  /\ x.phase # "resolve" /\ y.phase # "resolve"
                        /\ y.phase = "syntax" => x.phase = "syntax"
                        /\ x.phase \in {"global", "toposort", "validate"} =>
                            PhaseRank(x.phase) <= PhaseRank(y.phase)
                        /\ (x.phase \in PerModelPhases /\ y.phase \in PerModelPhases) =>
                            /\ ModelPos(x.model) <= ModelPos(y.model)
                            /\ x.model = y.model =>
                                /\ GroupRank(x.phase) <= GroupRank(y.phase)
                                /\ (GroupRank(x.phase) = 2 /\ GroupRank(y.phase) = 2) =>
                                    /\ x.item <= y.item
                                    /\ x.item = y.item =>
                                        PhaseRank(x.phase) <= PhaseRank(y.phase)

\* two models and two items reported errors of several phases, the type
\* error of one item ahead of the scope error of the next
C10_Witness ==
    /\ reported
    /\ result.tag = "Ok"
    /\ \E a, b, c, d \in DOMAIN diagnostics :
        /\ a < b /\ b < c /\ c < d
        /\ diagnostics[a].phase = "type"
        /\ diagnostics[b].phase = "scope"
        /\ diagnostics[a].model = diagnostics[b].model
        /\ diagnostics[c].phase = "exhaustiveness"
        /\ diagnostics[d].phase = "lowering"

\* the errors one resolve diagnostic carries
ResolveErrors(d) ==
    IF d.error.kind = "MultipleErrors" THEN d.error.errors ELSE <<d.error>>
StdlibNotFound == "StandardLibraryNotFound" \in ErrorKinds
Called == hir # NoHir

\* C11 as stated: when the standard library cannot be found, all_errors and
\* the Err of run_hir_phase hold that one error and nothing else.
C11_OnlyStdlibError ==
    /\ (reported /\ StdlibNotFound) =>
            diagnostics = <<Diagnostic("resolve", NoPath, 0, StandardLibraryNotFound)>>
    /\ (Called /\ StdlibNotFound) =>
            hir = HirErr(<<Diagnostic("resolve", NoPath, 0, StandardLibraryNotFound)>>)

\* C11 amended: when the standard library cannot be found, all_errors and the
\* Err of run_hir_phase hold one resolve diagnostic that carries the errors of
\* resolve_includes (the library error together with every file and include
\* error of the same traversal); no syntax, lowering, scope, type or later
\* diagnostic accompanies it.
C11_OnlyResolveErrors ==
    /\ (reported /\ StdlibNotFound) =>
        /\ Len(diagnostics) = 1
        /\ diagnostics[1].phase = "resolve"
        /\ ResolveErrors(diagnostics[1]) = errors
    /\ (Called /\ StdlibNotFound) =>
        /\ hir.tag = "Err"
        /\ Len(hir.errors) = 1
        /\ hir.errors[1].phase = "resolve"
        /\ ResolveErrors(hir.errors[1]) = errors
    /\ StdlibNotFound =>
        \A k \in DOMAIN errors :
            errors[k].kind \in {"StandardLibraryNotFound", "FileError", "IncludeError"}

\* the library is missing, a file the root includes is missing too, and a
\* later phase had an error to report
C11_Witness ==
    /\ reported
    /\ Called
    /\ StdlibNotFound
    /\ "FileError" \in ErrorKinds
    /\ "global" \in diag

\* C12: run_hir_phase returns the sorted item list exactly when the
\* aggregate of all_errors is empty, and the diagnostics of all_errors in
\* every other case.
C12_ItemsIffNoErrors ==
    Called =>
        /\ hir.tag \in {"Ok", "Err"}
        /\ hir.tag = "Ok" <=> AllErrorsOf(result) = <<>>
        /\ reported => (hir.tag = "Ok" <=> diagnostics = <<>>)
        /\ (reported /\ hir.tag = "Err") => hir.errors = diagnostics
        /\ hir.tag = "Err" => hir.items = <<>> /\ hir.errors # <<>>
        /\ hir.tag = "Ok" =>
            /\ result.tag = "Ok"
            /\ hir.errors = <<>>
            /\ Range(hir.items) =
                    {[model |-> m, item |-> i] :
                        <<m, i>> \in {<<n, j>> \in Range(result.models) \X (1..MaxIncludes) :
                                        j \in Range(LookupItems(n))}}
            /\ \A a, b \in DOMAIN hir.items : hir.items[a] = hir.items[b] => a = b

\* the includes resolved, a later phase failed, and both all_errors and
\* run_hir_phase returned its diagnostic
C12_Witness ==
    /\ Called
    /\ reported
    /\ result.tag = "Ok"
    /\ hir.tag = "Err"
    /\ hir.errors = diagnostics
    /\ \E k \in DOMAIN diagnostics : diagnostics[k].phase = "type"

\* the warnings of the items of the models ms
ItemsWarningsOf(ms) ==
    {Diagnostic(ph, m, i, NoError) :
        <<ph, m, i>> \in {<<p, n, j>> \in (WarningPhases \cap diag) \X Range(ms) \X (1..MaxIncludes) :
                            j \in Range(LookupItems(n))}}

\* C13 as stated: all_warnings yields the scope and case-exhaustiveness
\* warnings of every item of every model, whether or not there are errors.
C13_WarningsAlways ==
    warned => Range(warnings) = ItemsWarningsOf(models)

\* C13 amended: when resolve_includes succeeds, all_warnings yields the scope
\* and case-exhaustiveness warnings of every item of every resolved model,
\* each once, whether or not all_errors is empty; when resolve_includes fails
\* all_warnings is empty.
C13_WarningsWhenResolved ==
    warned =>
        /\ result.tag = "Ok" =>
            /\ Range(warnings) = ItemsWarningsOf(result.models)
            /\ \A a, b \in DOMAIN warnings : warnings[a] = warnings[b] => a = b
        /\ result.tag # "Ok" => warnings = <<>>

\* the includes resolved, all_errors is not empty, and both kinds of warning
\* were reported
C13_Witness ==
    /\ warned
    /\ reported
    /\ result.tag = "Ok"
    /\ diagnostics # <<>>
    /\ \E a, b \in DOMAIN warnings :
        /\ warnings[a].phase = "scope_warning"
        /\ warnings[b].phase = "exhaustiveness_warning"

\* C14: check_case_exhaustiveness is never evaluated for an item that is
\* not in items_with_case of its model.
C14_OnlyItemsWithCase ==
    \A key \in evaluated.once :
        key.query = "check_case_exhaustiveness" =>
            key.item \in Range(ItemsWithCase(key.model))

LoweredOk == lowered.tag = "Done" /\ ast.tag = "Ok"
\* the surface item an Origin lies in
SurfaceIndex(origin) == origin[1][2]
\* the surface item each lowered item comes from, in item list order; 0
\* for an item the source map does not hold
ItemPositions ==
    [n \in DOMAIN lowered.items |->
        LET os == {e.origin : e \in {x \in lowered.source_map :
                                        x.sort = "item" /\ x.item = n}}
        IN  IF os = {} THEN 0 ELSE SurfaceIndex(CHOOSE o \in os : TRUE)]
\* the number of HIR items an E-prime surface item stands for
EPrimeItemCount(item) ==
    CASE item.k = "constraint" -> Len(item.expressions)
      [] item.k \in {"decision_declaration", "param_declaration"} ->
            Len(item.names) + Len(item.wheres)
      [] item.k \in {"const_definition", "domain_alias", "output"} -> 1
      [] item.k \in {"solve", "branching", "heuristic"} -> 0
RECURSIVE ExpectedPositions(_, _, _)
\* position k as often as count(items[k]) says, for k from the given one on
ExpectedPositions(items, count(_), k) ==
    IF k > Len(items)
    THEN <<>>
    ELSE [n \in 1..count(items[k]) |-> k] \o ExpectedPositions(items, count, k + 1)
OnePerNonInclude(item) == IF item.k = "include" THEN 0 ELSE 1

HasOrigin(sort, n, id) ==
    \E e \in lowered.source_map : e.sort = sort /\ e.item = n /\ e.id = id

\* C17: after lowering, every item of the item list and every expression,
\* type and pattern id of any item's arenas has an origin in the source map.
C17_SourceMapTotal ==
    lowered.tag = "Done" =>
        \A n \in DOMAIN lowered.items :
            /\ HasOrigin("item", n, 0)
            /\ \A id \in DOMAIN lowered.items[n].data.expressions :
                    HasOrigin("expression", n, id)
            /\ \A id \in DOMAIN lowered.items[n].data.types : HasOrigin("type", n, id)
            /\ \A id \in DOMAIN lowered.items[n].data.patterns : HasOrigin("pattern", n, id)

\* two items were lowered and one of them holds expressions, types and
\* patterns
C17_Witness ==
    /\ lowered.tag = "Done"
    /\ Len(lowered.items) = 2
    /\ \E n \in DOMAIN lowered.items :
        /\ lowered.items[n].data.expressions # <<>>
        /\ lowered.items[n].data.types # <<>>
        /\ lowered.items[n].data.patterns # <<>>

\* C18: lowering never aborts: for a parseable model of either surface
\* syntax lower_items does not panic, and every surface item is handed to
\* the collector before lower_items returns.
C18_NeverAborts ==
    ast.tag = "Ok" =>
        /\ lowered.tag # "Panic"
        /\ lowered.tag = "Done" => next_item = Len(ast.items) + 1

RECURSIVE BadLiterals(_, _)
\* the numeric literals below a MiniZinc expression whose text does not
\* parse: where the literal is, and whether it is an expression, the value
\* of a numeric pattern or the field number of a tuple access
BadLiterals(e, o) ==
    LET Bad(lit, at, pos) ==
            IF lit.value.ok
            THEN {}
            ELSE {[at |-> at, pos |-> pos, float |-> lit.k = "float_literal"]}
        All(es, name) == UNION {BadLiterals(es[k], At(o, name, k)) : k \in DOMAIN es}
    IN  CASE e.k \in {"integer_literal", "float_literal"} -> Bad(e, o, "expression")
          [] e.k = "tuple_access" ->
                Bad([k |-> "integer_literal", value |-> e.field.value],
                    At(o, "field", 1), "field")
                \cup All(<<e.tuple>>, "tuple")
          [] e.k = "case" ->
                All(<<e.expression>>, "expression")
                \cup UNION {
                    LET arm == e.cases[k]
                        ao == At(o, "case", k)
                    IN  (IF arm.pattern.k = "numeric_literal"
                            /\ arm.pattern.value.k # "infinity"
                         THEN Bad(arm.pattern.value, At(At(ao, "pattern", 1), "value", 1),
                                  "pattern")
                         ELSE {})
                        \cup BadLiterals(arm.value, At(ao, "value", 1)) : k \in DOMAIN e.cases}
          [] e.k = "array_literal_2d" ->
                All(e.column_indices, "column_index")
                \cup UNION {UNION {BadLiterals(e.rows[r].members[k],
                                               At(At(o, "row", r), "member", k)) :
                                        k \in DOMAIN e.rows[r].members} :
                                r \in DOMAIN e.rows}
                \cup UNION {UNION {BadLiterals(e.rows[r].index[k],
                                               At(At(o, "row", r), "index", k)) :
                                        k \in DOMAIN e.rows[r].index} :
                                r \in DOMAIN e.rows}
          [] e.k = "array_literal" ->
                UNION {BadLiterals(e.members[k].value,
                                   At(At(o, "member", k), "value", 1)) :
                            k \in DOMAIN e.members}
                \cup UNION {UNION {BadLiterals(e.members[k].indices[j],
                                               At(At(o, "member", k), "indices", j)) :
                                        j \in DOMAIN e.members[k].indices} :
                                k \in DOMAIN e.members}
          [] e.k = "call" ->
                All(e.arguments, "argument") \cup All(<<e.function>>, "function")
          [] e.k = "infix_operator" ->
                All(<<e.left>>, "left") \cup All(<<e.right>>, "right")
          [] OTHER -> {}
\* the unparsable literals of the constraint and solve items of the model
\* (no other item of the universe holds one)
ModelBadLiterals ==
    UNION {LET item == ast.items[n]
               o == At(<<>>, "item", n)
           IN  CASE item.k = "constraint" ->
                        BadLiterals(item.expression, At(o, "expression", 1))
                 [] item.k = "solve" /\ item.goal.k # "satisfy" ->
                        BadLiterals(item.goal.objective, At(o, "objective", 1))
                 [] OTHER -> {} : n \in DOMAIN ast.items}
\* the HIR node that holds the value of a literal: the literal expression,
\* the numeric pattern or the tuple access
OwnerEntries(b) ==
    {e \in lowered.source_map :
        /\ e.sort = IF b.pos = "pattern" THEN "pattern" ELSE "expression"
        /\ e.origin = IF b.pos = "expression" THEN b.at ELSE SubSeq(b.at, 1, Len(b.at) - 1)}
Lowering(b) == OwnerEntries(b) # {}
SubstitutedValue(b) ==
    LET e == CHOOSE e \in OwnerEntries(b) : TRUE
        data == lowered.items[e.item].data
    IN  CASE b.pos = "expression" -> data.expressions[e.id].v
          [] b.pos = "pattern" -> data.patterns[e.id].value
          [] b.pos = "field" -> data.expressions[e.id].field
InvalidNumericLiterals(at) ==
    Cardinality({i \in DOMAIN lowered.errors :
                    lowered.errors[i].kind = "InvalidNumericLiteral"
                    /\ lowered.errors[i].at = at})
MznLowered == lowered.tag = "Done" /\ ast.tag = "Ok" /\ ast.kind = "mzn"

\* C19 (as stated): every numeric literal whose text does not parse, be it
\* an expression, a numeric pattern or a tuple-access field number, gets
\* exactly one InvalidNumericLiteral diagnostic and the value 0 (0.0 for a
\* float) in the lowered node.
C19_SubstituteZero ==
    MznLowered =>
        \A b \in ModelBadLiterals :
            /\ InvalidNumericLiterals(b.at) = 1
            /\ Lowering(b)
            /\ SubstitutedValue(b) = IF b.float THEN "0.0" ELSE 0

\* C19 (amended): every unparsable numeric literal that lowering reaches
\* gets exactly one InvalidNumericLiteral diagnostic; the lowered node
\* holds 0 (0.0 for a float) for an expression and for a numeric pattern
\* and 1 for a tuple-access field number. A literal in a row that follows
\* the rejected row of a 2-D array literal is not reached and not reported.
\* No other InvalidNumericLiteral is reported.
C19_SubstituteZeroOrOne ==
    MznLowered =>
        /\ \A b \in ModelBadLiterals :
            IF Lowering(b)
            THEN /\ InvalidNumericLiterals(b.at) = 1
                 /\ SubstitutedValue(b) = IF b.pos = "field" THEN 1
                                          ELSE IF b.float THEN "0.0" ELSE 0
            ELSE InvalidNumericLiterals(b.at) = 0
        /\ \A i \in DOMAIN lowered.errors :
            lowered.errors[i].kind = "InvalidNumericLiteral" =>
                \E b \in ModelBadLiterals : b.at = lowered.errors[i].at

\* a tuple access was lowered whose field number and whose tuple are both
\* unparsable literals
C19_Witness ==
    /\ MznLowered
    /\ \E b, c \in ModelBadLiterals :
        /\ b.pos = "field" /\ Lowering(b)
        /\ c.pos = "expression" /\ Lowering(c)
        /\ ~c.float

\* the constraint items of the model whose expression is a 2-D array literal
ArrayLiteral2DItems ==
    {n \in DOMAIN ast.items :
        ast.items[n].k = "constraint" /\ ast.items[n].expression.k = "array_literal_2d"}
Ragged(al) ==
    \E r, q \in DOMAIN al.rows : Len(al.rows[r].members) # Len(al.rows[q].members)
MixedRows(al) ==
    \E r, q \in DOMAIN al.rows : al.rows[r].index = <<>> /\ al.rows[q].index # <<>>
\* the lowered node of the expression of constraint item n
LoweredExpression(n) ==
    LET e == CHOOSE e \in lowered.source_map :
                /\ e.sort = "expression"
                /\ e.origin = At(At(<<>>, "item", n), "expression", 1)
    IN  lowered.items[e.item].data.expressions[e.id]

\* C20: a 2-D array literal whose rows differ in length, or that has both
\* indexed and non-indexed rows in either order, is lowered to Missing with
\* an InvalidArrayLiteral diagnostic.
C20_InvalidArrayLiteral ==
    MznLowered =>
        \A n \in ArrayLiteral2DItems :
            Ragged(ast.items[n].expression) \/ MixedRows(ast.items[n].expression) =>
                /\ LoweredExpression(n).k = "Missing"
                /\ \E i \in DOMAIN lowered.errors :
                    /\ lowered.errors[i].kind = "InvalidArrayLiteral"
                    /\ lowered.errors[i].at = At(At(<<>>, "item", n), "expression", 1)

\* the sub-expressions of an expression that stand where an expression is
\* lowered, each with its origin (for a 2-D array literal, itself)
RECURSIVE SubExpressions(_, _)
SubExpressions(e, o) ==
    LET All(es, name) == UNION {SubExpressions(es[k], At(o, name, k)) : k \in DOMAIN es}
    IN  {[e |-> e, at |-> o]}
        \cup CASE e.k = "array_literal" ->
                    UNION {SubExpressions(e.members[k].value,
                                          At(At(o, "member", k), "value", 1))
                           \cup UNION {SubExpressions(e.members[k].indices[j],
                                                      At(At(o, "member", k), "indices", j)) :
                                            j \in DOMAIN e.members[k].indices} :
                                k \in DOMAIN e.members}
               [] e.k = "call" ->
                    All(e.arguments, "argument") \cup All(<<e.function>>, "function")
               [] e.k = "infix_operator" ->
                    All(<<e.left>>, "left") \cup All(<<e.right>>, "right")
               [] e.k = "tuple_access" -> All(<<e.tuple>>, "tuple")
               [] e.k = "case" ->
                    All(<<e.expression>>, "expression")
                    \cup UNION {SubExpressions(e.cases[k].value,
                                               At(At(o, "case", k), "value", 1)) :
                                    k \in DOMAIN e.cases}
               [] OTHER -> {}
\* the expressions of the constraint items of the model
ConstraintExpressions ==
    UNION {IF ast.items[n].k = "constraint"
           THEN SubExpressions(ast.items[n].expression,
                               At(At(<<>>, "item", n), "expression", 1))
           ELSE {} : n \in DOMAIN ast.items}
\* the 1-D array literals among them
ModelArrayLiterals ==
    {[al |-> x.e, at |-> x.at] : x \in {y \in ConstraintExpressions : y.e.k = "array_literal"}}
\* the source map entry and the HIR node of the expression lowered from origin
ExpressionEntry(origin) ==
    CHOOSE e \in lowered.source_map : e.sort = "expression" /\ e.origin = origin
ExpressionAt(origin) ==
    lowered.items[ExpressionEntry(origin).item].data.expressions[ExpressionEntry(origin).id]
DiagnosticsAt(kind, at) ==
    Cardinality({i \in DOMAIN lowered.errors :
                    lowered.errors[i].kind = kind /\ lowered.errors[i].at = at})
Indexed(al) == {k \in DOMAIN al.members : al.members[k].indices # <<>>}
\* the ids of the lowered values, and of the lowered indices, of the members ks
ValueIds(a, ks) ==
    [k \in ks |-> ExpressionEntry(At(At(a.at, "member", k), "value", 1)).id]
IndexIds(a, ks) ==
    [k \in ks |-> ExpressionEntry(At(At(a.at, "member", k), "indices", 1)).id]

\* C21: a 1-D array literal with no indexed member lowers to an ArrayLiteral
\* of all members; with an index on the first member alone, to an
\* IndexedArrayLiteral with that index and all members; with an index on
\* every member, to an IndexedArrayLiteral with one index per member; any
\* other mix gives one InvalidArrayLiteral diagnostic and Missing. So an
\* IndexedArrayLiteral has 1 index or as many indices as members.
C21_ArrayLiteral ==
    MznLowered =>
        /\ \A a \in ModelArrayLiterals :
            LET n == Len(a.al.members)
                node == ExpressionAt(a.at)
            IN  CASE Indexed(a.al) = {} ->
                        /\ node.k = "ArrayLiteral"
                        /\ node.members = ValueIds(a, 1..n)
                        /\ DiagnosticsAt("InvalidArrayLiteral", a.at) = 0
                  [] Indexed(a.al) = {1} \/ Indexed(a.al) = 1..n ->
                        /\ node.k = "IndexedArrayLiteral"
                        /\ node.members = ValueIds(a, 1..n)
                        /\ node.indices = IndexIds(a, 1..Cardinality(Indexed(a.al)))
                        /\ DiagnosticsAt("InvalidArrayLiteral", a.at) = 0
                  [] OTHER ->
                        /\ node.k = "Missing"
                        /\ DiagnosticsAt("InvalidArrayLiteral", a.at) = 1
        /\ \A i \in DOMAIN lowered.items :
            \A x \in Range(lowered.items[i].data.expressions) :
                x.k = "IndexedArrayLiteral" =>
                    Len(x.indices) = 1 \/ Len(x.indices) = Len(x.members)

\* a literal of three members with an index on the first alone was lowered
\* to an IndexedArrayLiteral of one index and three members
C21_Witness ==
    /\ MznLowered
    /\ \E a \in ModelArrayLiterals :
        /\ Len(a.al.members) = 3
        /\ Indexed(a.al) = {1}
        /\ ExpressionAt(a.at).k = "IndexedArrayLiteral"
        /\ Len(ExpressionAt(a.at).indices) = 1
        /\ Len(ExpressionAt(a.at).members) = 3

\* the enumerators that the right-hand side of an enum assignment lists,
\* left to right: set literals and ++ structure the list
RECURSIVE Enumerators(_, _)
Enumerators(e, o) ==
    CASE e.k = "identifier" -> <<[k |-> "Atom", at |-> o, n |-> 0]>>
      [] e.k = "call" /\ e.function.k = "identifier" ->
            <<[k |-> IF e.function.name = "_" THEN "Anonymous" ELSE "Function",
               at |-> At(o, "function", 1), n |-> Len(e.arguments)]>>
      [] e.k = "set_literal" ->
            Concat([j \in DOMAIN e.members |->
                        Enumerators(e.members[j], At(o, "member", j))], 1)
      [] e.k = "infix_operator" /\ e.operator = "++" ->
            Enumerators(e.left, At(o, "left", 1)) \o Enumerators(e.right, At(o, "right", 1))
      [] OTHER -> <<>>
\* the sub-expressions of the right-hand side that list no enumerator
RECURSIVE NoEnumerator(_, _)
NoEnumerator(e, o) ==
    CASE e.k = "identifier" -> {}
      [] e.k = "call" /\ e.function.k = "identifier" -> {}
      [] e.k = "set_literal" ->
            UNION {NoEnumerator(e.members[j], At(o, "member", j)) : j \in DOMAIN e.members}
      [] e.k = "infix_operator" /\ e.operator = "++" ->
            NoEnumerator(e.left, At(o, "left", 1)) \cup NoEnumerator(e.right, At(o, "right", 1))
      [] OTHER -> {o}
EnumAssignments ==
    {n \in DOMAIN ast.items :
        /\ ast.items[n].k = "assignment"
        /\ ast.items[n].assignee.k = "identifier"
        /\ ast.items[n].assignee.name \in ast.enumeration_names}
\* the definition of the i-th HIR item, and the origin of its pattern id
Definition(i) ==
    LET fields == lowered.items[i].fields
    IN  fields[CHOOSE j \in DOMAIN fields : fields[j][1] = "definition"][2]
PatternOrigin(i, id) ==
    (CHOOSE e \in lowered.source_map : e.sort = "pattern" /\ e.item = i /\ e.id = id).origin
ListsEnumerators(i, rhs, o) ==
    LET expected == Enumerators(rhs, o)
        definition == Definition(i)
    IN  /\ Len(definition) = Len(expected)
        /\ \A j \in DOMAIN expected :
            /\ j \in DOMAIN definition
            /\ definition[j].k = expected[j].k
            /\ PatternOrigin(i, IF expected[j].k = "Function"
                                THEN definition[j].constructor
                                ELSE definition[j].pattern) = expected[j].at
            /\ expected[j].k # "Atom" => Len(definition[j].parameters) = expected[j].n

\* C22: an assignment to an enumeration lowers to one EnumAssignment whose
\* definition lists the enumerators of the right-hand side in source order
\* (identifiers as atoms, calls as constructor functions with one parameter
\* per argument, _(...) as the anonymous case, set literals and ++ as
\* structure), and every other sub-expression of the right-hand side gets a
\* diagnostic.
C22_EnumAssignment ==
    MznLowered =>
        \A n \in EnumAssignments :
            LET o == At(At(<<>>, "item", n), "definition", 1)
                i == (CHOOSE e \in lowered.source_map :
                        e.sort = "item" /\ e.origin = At(<<>>, "item", n)).item
            IN  /\ lowered.items[i].kind = "EnumAssignment"
                /\ ListsEnumerators(i, ast.items[n].definition, o)
                /\ \A at \in NoEnumerator(ast.items[n].definition, o) :
                    DiagnosticsAt("SyntaxError", at) >= 1

\* the type-inst identifiers of a type, each with where it occurs
RECURSIVE Occurrences(_, _, _)
Occurrences(t, dim, param) ==
    CASE t.k = "array_type" ->
            Occurrences(t.element, FALSE, param)
            \cup UNION {Occurrences(t.dimensions[j], TRUE, param) : j \in DOMAIN t.dimensions}
      [] t.k = "type_base" /\ t.domain.k \in {"type_inst_identifier",
                                              "type_inst_enum_identifier"} ->
            {[name |-> t.domain.name, enum |-> t.domain.k = "type_inst_enum_identifier",
              var |-> ~t.any_type /\ t.var_type = "var", dim |-> dim, param |-> param]}
      [] OTHER -> {}
\* the _ array dimensions of a parameter type
RECURSIVE AnonymousDimensions(_, _)
AnonymousDimensions(t, o) ==
    IF t.k = "array_type"
    THEN {At(At(o, "dimension", j), "domain", 1) :
            j \in {i \in DOMAIN t.dimensions :
                    /\ t.dimensions[i].k = "type_base"
                    /\ t.dimensions[i].var_type = "none"
                    /\ t.dimensions[i].opt_type = "none"
                    /\ t.dimensions[i].domain.k = "bounded"
                    /\ t.dimensions[i].domain.e.k = "anonymous"}}
    ELSE {}
SignatureOccurrences(f) ==
    Occurrences(f.return_type, FALSE, FALSE)
    \cup UNION {Occurrences(f.parameters[j].declared_type, FALSE, TRUE) :
                    j \in DOMAIN f.parameters}
FunctionItems == {n \in DOMAIN ast.items : ast.items[n].k = "function"}
\* the HIR item of surface item n and its type-inst identifier list
ItemOf(n) ==
    (CHOOSE e \in lowered.source_map : e.sort = "item" /\ e.origin = At(<<>>, "item", n)).item
TypeInstVars(n) ==
    LET fields == lowered.items[ItemOf(n)].fields
    IN  fields[CHOOSE j \in DOMAIN fields : fields[j][1] = "type_inst_vars"][2]
\* the identifier that a declaration names
NameOf(n, d) == lowered.items[ItemOf(n)].data.patterns[d.name].name
Sorted(list) == \A j, k \in DOMAIN list : j < k => list[j].name < list[k].name

\* C23 (as stated): the type-inst identifier list of a function has one
\* entry per distinct identifier name of the signature, is sorted, and the
\* flags of an entry accumulate over the occurrences of its name:
\* varifiable iff some occurrence is behind var or an array dimension,
\* indexable iff some occurrence is an array dimension, enum-typed iff some
\* occurrence is an enum type-inst identifier.
C23_TypeInstVars ==
    MznLowered =>
        \A n \in FunctionItems :
            LET occ == SignatureOccurrences(ast.items[n])
                list == TypeInstVars(n)
            IN  /\ Len(list) = Cardinality({o.name : o \in occ})
                /\ {NameOf(n, list[j]) : j \in DOMAIN list} = {o.name : o \in occ}
                /\ Sorted(list)
                /\ \A j \in DOMAIN list :
                    LET mine == {o \in occ : o.name = NameOf(n, list[j])}
                    IN  /\ list[j].is_varifiable <=> \E o \in mine : o.var \/ o.dim
                        /\ list[j].is_indexable <=> \E o \in mine : o.dim
                        /\ list[j].is_enum <=> \E o \in mine : o.enum

\* C23 (amended): the list has one entry per distinct identifier name that
\* occurs in a parameter type and one anonymous entry per _ array dimension
\* of a parameter type, sorted by pattern. The entry of a type-inst
\* identifier is not enum-typed, varifiable iff some occurrence of its name
\* in the return type or in a parameter type is behind var or an array
\* dimension, and indexable iff some occurrence is an array dimension; the
\* entry of an enum type-inst identifier and an anonymous entry are
\* enum-typed, varifiable and not indexable.
C23_ParameterTypeInstVars ==
    MznLowered =>
        \A n \in FunctionItems :
            LET occ == SignatureOccurrences(ast.items[n])
                list == TypeInstVars(n)
                named == {j \in DOMAIN list : ~list[j].anonymous}
                anons == UNION {AnonymousDimensions(ast.items[n].parameters[j].declared_type,
                                                    At(At(At(<<>>, "item", n), "parameter", j),
                                                       "declared_type", 1)) :
                                    j \in DOMAIN ast.items[n].parameters}
            IN  /\ Cardinality(named) = Cardinality({o.name : o \in {q \in occ : q.param}})
                /\ {NameOf(n, list[j]) : j \in named} = {o.name : o \in {q \in occ : q.param}}
                /\ {PatternOrigin(ItemOf(n), list[j].name) : j \in DOMAIN list \ named} = anons
                /\ Len(list) - Cardinality(named) = Cardinality(anons)
                /\ Sorted(list)
                /\ \A j \in named :
                    LET mine == {o \in occ : o.name = NameOf(n, list[j])}
                    IN  IF \E o \in mine : o.enum
                        THEN list[j].is_enum /\ list[j].is_varifiable /\ ~list[j].is_indexable
                        ELSE /\ ~list[j].is_enum
                             /\ list[j].is_varifiable <=> \E o \in mine : o.var \/ o.dim
                             /\ list[j].is_indexable <=> \E o \in mine : o.dim
                /\ \A j \in DOMAIN list \ named :
                    list[j].is_enum /\ list[j].is_varifiable /\ ~list[j].is_indexable

\* a function was lowered whose return type is var $T and whose parameters
\* are $T and an array over $$E: the list holds a varifiable $T and $$E
C23_Witness ==
    /\ MznLowered
    /\ \E n \in FunctionItems :
        /\ \E o \in SignatureOccurrences(ast.items[n]) : o.var /\ ~o.param /\ o.name = "$T"
        /\ \E o \in SignatureOccurrences(ast.items[n]) : o.enum /\ o.dim /\ o.param
        /\ \E j, k \in DOMAIN TypeInstVars(n) :
            /\ NameOf(n, TypeInstVars(n)[j]) = "$T"
            /\ TypeInstVars(n)[j].is_varifiable
            /\ ~TypeInstVars(n)[j].is_indexable
            /\ NameOf(n, TypeInstVars(n)[k]) = "$$E"

\* the infix operators of the right-hand side of an enum assignment that
\* structure the list, and the expressions that are the arguments of its
\* constructor calls
RECURSIVE EnumRhs(_, _)
EnumRhs(e, o) ==
    CASE e.k = "infix_operator" ->
            {[e |-> e, at |-> o, structure |-> TRUE]}
            \cup EnumRhs(e.left, At(o, "left", 1)) \cup EnumRhs(e.right, At(o, "right", 1))
      [] e.k = "set_literal" ->
            UNION {EnumRhs(e.members[j], At(o, "member", j)) : j \in DOMAIN e.members}
      [] e.k = "call" /\ e.function.k = "identifier" ->
            UNION {{[e |-> x.e, at |-> x.at, structure |-> FALSE] :
                        x \in SubExpressions(e.arguments[j], At(o, "argument", j))} :
                    j \in DOMAIN e.arguments}
      [] OTHER -> {}
ModelEnumRhs ==
    UNION {EnumRhs(ast.items[n].definition, At(At(<<>>, "item", n), "definition", 1)) :
                n \in EnumAssignments}
\* the infix operators that stand where an expression is lowered, and those
\* that structure an enum assignment
ExpressionInfixOperators ==
    {x \in ConstraintExpressions : x.e.k = "infix_operator"}
    \cup {[e |-> x.e, at |-> x.at] :
            x \in {y \in ModelEnumRhs : ~y.structure /\ y.e.k = "infix_operator"}}
StructureInfixOperators ==
    {[e |-> x.e, at |-> x.at] : x \in {y \in ModelEnumRhs : y.structure}}
ExpressionEntries(origin) ==
    {e \in lowered.source_map : e.sort = "expression" /\ e.origin = origin}
\* the one node at the position of x is the call of the operator of x on
\* its lowered operands
LowersToCall(x) ==
    /\ Cardinality(ExpressionEntries(x.at)) = 1
    /\ LET entry == ExpressionEntry(x.at)
           data == lowered.items[entry.item].data
           node == data.expressions[entry.id]
       IN  /\ node.k = "Call"
           /\ data.expressions[node.function] =
                [k |-> "Identifier",
                 name |-> IF x.e.operator = "==" THEN "=" ELSE x.e.operator]
           /\ Cardinality(ExpressionEntries(At(x.at, "left", 1))) = 1
           /\ Cardinality(ExpressionEntries(At(x.at, "right", 1))) = 1
           /\ node.arguments = <<ExpressionEntry(At(x.at, "left", 1)).id,
                                 ExpressionEntry(At(x.at, "right", 1)).id>>
NoInfixOperatorNode ==
    \A i \in DOMAIN lowered.items :
        \A x \in Range(lowered.items[i].data.expressions) : x.k # "InfixOperator"

\* C24 (as stated): every infix operator expression a OP b lowers to exactly
\* one Call node at its position whose function is the identifier OP (= for
\* ==) and whose arguments are the lowered a and b in that order, and the
\* HIR holds no infix operator node.
C24_InfixIsCall ==
    MznLowered =>
        /\ \A x \in ExpressionInfixOperators \cup StructureInfixOperators : LowersToCall(x)
        /\ NoInfixOperatorNode

\* C24 (amended): every infix operator expression that is lowered as an
\* expression lowers to exactly one such Call node; an infix operator that
\* structures the right-hand side of an assignment to an enumeration lowers
\* to no node; the HIR holds no infix operator node.
C24_ExpressionInfixIsCall ==
    MznLowered =>
        /\ \A x \in ExpressionInfixOperators : LowersToCall(x)
        /\ \A x \in StructureInfixOperators : ExpressionEntries(x.at) = {}
        /\ NoInfixOperatorNode

\* an == whose left operand is itself an infix operator was lowered to a
\* call of = on a call
C24_Witness ==
    /\ MznLowered
    /\ \E x \in ExpressionInfixOperators :
        /\ x.e.operator = "=="
        /\ x.e.left.k = "infix_operator"
        /\ ExpressionAt(x.at).k = "Call"
        /\ ExpressionAt(At(x.at, "left", 1)).k = "Call"
        /\ ExpressionAt(At(x.at, "operator", 1)).name = "="

\* the items that the E-prime collector holds for surface item n
CollectedFor(n) ==
    {e.item : e \in {x \in collector.source_map :
                        x.sort = "item" /\ x.origin = At(<<>>, "item", n)}}
\* what an E-prime expression without an unparsable literal lowers to
LoweredEPrime(e) ==
    CASE e.k = "boolean_literal" -> [k |-> "BooleanLiteral", v |-> e.value]
      [] e.k = "identifier" -> [k |-> "Identifier", name |-> e.name]
      [] e.k = "integer_literal" -> [k |-> "IntegerLiteral", v |-> e.parse.v]

\* C25: once lower_items has handled an E-prime constant definition, the
\* item list holds exactly one Assignment item for it, appended at the end,
\* whose assignee is the identifier NAME and whose definition is the lowered
\* EXPR, and there is no diagnostic.
C25_ConstDefinition ==
    ast.tag = "Ok" /\ ast.kind = "eprime" =>
        \A n \in 1..(next_item - 1) :
            ast.items[n].k = "const_definition" =>
                /\ Cardinality(CollectedFor(n)) = 1
                /\ \A i \in CollectedFor(n) :
                    LET item == collector.items[i]
                    IN  /\ item.kind = "Assignment"
                        /\ next_item = n + 1 => i = Len(collector.items)
                        /\ Len(item.fields) = 2
                        /\ item.fields[1][1] = "assignee"
                        /\ item.data.expressions[item.fields[1][2]] =
                                [k |-> "Identifier", name |-> ast.items[n].name]
                        /\ item.fields[2][1] = "definition"
                        /\ item.data.expressions[item.fields[2][2]] =
                                LoweredEPrime(ast.items[n].definition)
                /\ collector.diagnostics = <<>>

\* the Solve items of the lowered model
SolveItems == {i \in DOMAIN lowered.items : lowered.items[i].kind = "Solve"}

\* C26: lowering an E-prime model through lower_items gives exactly one
\* Solve item; it carries the goal of the solve statement of the model, or
\* satisfy when the model has none, and the branching variables as its
\* annotation.
C26_OneSolveItem ==
    LoweredOk /\ ast.kind = "eprime" =>
        /\ Cardinality(SolveItems) = 1
        /\ \A i \in SolveItems :
            /\ lowered.items[i].goal = collector.goal.k
            /\ lowered.items[i].annotations = collector.branching_annotations

\* the step of run_hir_phase a query belongs to
Phase(key) ==
    CASE key.query = "resolve_includes" -> 1
      [] key.query = "syntax_errors" -> 2
      [] key.query = "lower_items" -> 3
      [] key.query = "collect_global_scope" -> 4
      [] key.query = "collect_item_scope" -> 5
      [] key.query = "lookup_item_types" -> 6
      [] key.query \in {"items_with_case", "check_case_exhaustiveness"} -> 7
      [] key.query = "all_errors" -> 8
      [] key.query = "topological_sort_items" -> 9
\* where run_hir_phase asks for a query for the first time
FirstRequest(key) ==
    CHOOSE i \in DOMAIN requested :
        requested[i] = key /\ \A j \in 1..(i - 1) : requested[j] # key
\* the items of every resolved model, each as the arguments of a query
AllItems(q) ==
    UNION {ItemsRequests(q, result.models[k], LookupItems(result.models[k])) :
                k \in DOMAIN result.models}

\* C27: run_hir_phase triggers its queries in a fixed order: include
\* resolution, syntax errors, lowering of every model, global scope, the
\* item scopes of all models, the types of all models, case exhaustiveness,
\* error aggregation. It requests no item's types before it has requested
\* the scope of every item of every model, and after a failed include
\* resolution it requests nothing except all_errors.
C27_QueryOrder ==
    Called =>
        IF result.tag = "Ok"
        THEN /\ \A a, b \in Range(requested) :
                    Phase(a) < Phase(b) => FirstRequest(a) < FirstRequest(b)
             /\ {Key("resolve_includes", NoPath, 0), Key("syntax_errors", NoPath, 0),
                 Key("collect_global_scope", NoPath, 0), Key("all_errors", NoPath, 0)}
                \cup {Key("lower_items", result.models[k], 0) : k \in DOMAIN result.models}
                \cup {Key("items_with_case", result.models[k], 0) : k \in DOMAIN result.models}
                \cup AllItems("collect_item_scope") \cup AllItems("lookup_item_types")
                    \subseteq Range(requested)
             /\ \A j \in DOMAIN requested :
                    requested[j].query = "lookup_item_types" =>
                        \A key \in AllItems("collect_item_scope") :
                            \E i \in 1..(j - 1) : requested[i] = key
        ELSE requested = <<Key("resolve_includes", NoPath, 0), Key("all_errors", NoPath, 0)>>

\* run_hir_phase ran on two models that both hold an item, one of them a
\* case item
C27_Witness ==
    /\ Called
    /\ result.tag = "Ok"
    /\ \E k, l \in DOMAIN result.models :
        /\ k < l
        /\ LookupItems(result.models[k]) # <<>>
        /\ LookupItems(result.models[l]) # <<>>
        /\ ItemsWithCase(result.models[l]) # <<>>
    /\ \E j \in DOMAIN requested : requested[j].query = "lookup_item_types"

\* the 2-D array literals of the constraint items that were lowered to an
\* ArrayLiteral2D, each surface literal with its node
LoweredArrayLiterals2D ==
    {[al |-> x.e, node |-> ExpressionAt(x.at)] :
        x \in {y \in ConstraintExpressions :
                /\ y.e.k = "array_literal_2d"
                /\ ExpressionAt(y.at).k = "ArrayLiteral2D"}}
Rectangular(al, node) ==
    /\ Len(node.members) = node.rows.n * node.columns.n
    /\ node.rows.indexed => Len(node.rows.indices) = Len(al.rows)
    /\ node.columns.indexed =>
        \A r \in DOMAIN al.rows : Len(node.columns.indices) = Len(al.rows[r].members)

\* C28: every ArrayLiteral2D produced by lowering is rectangular and
\* consistently indexed: it has rows times columns members, an Indexed row
\* set has one index per row and an Indexed column set one index per column.
C28_Rectangular ==
    MznLowered => \A x \in LoweredArrayLiterals2D : Rectangular(x.al, x.node)

\* the ids a node holds, each with the arena it points into
Ref(arena, ids) == {[arena |-> arena, id |-> ids[j]] : j \in DOMAIN ids}
ExpressionRefs(x) ==
    CASE x.k = "TupleAccess" -> Ref("expressions", <<x.tuple>>)
      [] x.k = "Case" ->
            Ref("expressions", <<x.expression>>)
            \cup UNION {Ref("patterns", <<x.cases[j].pattern>>)
                        \cup Ref("expressions", <<x.cases[j].value>>) : j \in DOMAIN x.cases}
      [] x.k = "ArrayLiteral" -> Ref("expressions", x.members)
      [] x.k = "IndexedArrayLiteral" -> Ref("expressions", x.indices \o x.members)
      [] x.k = "ArrayLiteral2D" ->
            Ref("expressions", x.rows.indices \o x.columns.indices \o x.members)
      [] x.k = "Call" -> Ref("expressions", <<x.function>> \o x.arguments)
      [] OTHER -> {}
TypeRefs(t) ==
    CASE t.k = "Bounded" -> Ref("expressions", <<t.domain>>)
      [] t.k = "AnonymousTypeInstVar" -> Ref("patterns", <<t.pattern>>)
      [] t.k = "Array" -> Ref("types", <<t.dimensions, t.element>>)
      [] t.k = "Tuple" -> Ref("types", t.fields)
      [] OTHER -> {}
\* the kinds of node an expression can lower to
NodeKinds(e) ==
    CASE e.k = "missing" -> {"Missing"}
      [] e.k = "anonymous" -> {"Missing"}
      [] e.k = "identifier" -> {"Identifier"}
      [] e.k = "integer_literal" -> {"IntegerLiteral"}
      [] e.k = "float_literal" -> {"FloatLiteral"}
      [] e.k = "tuple_access" -> {"TupleAccess"}
      [] e.k = "case" -> {"Case"}
      [] e.k = "call" -> {"Call"}
      [] e.k = "infix_operator" -> {"Call"}
      [] e.k = "array_literal" -> {"ArrayLiteral", "IndexedArrayLiteral", "Missing"}
      [] e.k = "array_literal_2d" -> {"ArrayLiteral2D", "Missing"}

\* C29: in the arenas of every item, a node holds only ids of nodes of the
\* same item that were allocated before it: they exist, and an id into the
\* node's own arena is smaller than the id of the node. The id recorded for
\* an expression still refers to the node lowered from that expression
\* after all later allocations.
C29_ArenaDag ==
    /\ \A i \in DOMAIN collector.items :
        LET data == collector.items[i].data
        IN  /\ \A j \in DOMAIN data.expressions :
                \A r \in ExpressionRefs(data.expressions[j]) :
                    /\ r.id \in DOMAIN data[r.arena]
                    /\ r.arena = "expressions" => r.id < j
            /\ \A j \in DOMAIN data.types :
                \A r \in TypeRefs(data.types[j]) :
                    /\ r.id \in DOMAIN data[r.arena]
                    /\ r.arena = "types" => r.id < j
    /\ MznLowered =>
        \A x \in ConstraintExpressions :
            ExpressionEntries(x.at) # {} => ExpressionAt(x.at).k \in NodeKinds(x.e)

\* an item was collected that holds a call whose first argument is a call
C29_Witness ==
    \E i \in DOMAIN collector.items :
        LET data == collector.items[i].data
        IN  \E j \in DOMAIN data.expressions :
                /\ data.expressions[j].k = "Call"
                /\ data.expressions[data.expressions[j].arguments[1]].k = "Call"
                /\ data.expressions[data.expressions[j].function].k = "Identifier"

\* ------------------------------------------------- resolution before use
\* the queries whose bodies unwrap resolve_includes, db.cst or db.ast
AssumeResolved ==
    {"syntax_errors", "enumeration_names", "lower_items", "items_with_case",
     "entity_counts"}

\* db.ast(m) is Ok
Parses(m) == Ast(m).kind \in {"mzn", "eprime"}

\* the queries with a stored value: the ones demanded, and enumeration_names,
\* which the lowering of a MiniZinc model asks for at an assignment (an item
\* that is neither an include nor a case item may be one)
Stored(ev) ==
    ev.once
        \cup {Key("enumeration_names", NoPath, 0) :
                key \in {k \in ev.once :
                            /\ k.query = "lower_items"
                            /\ Ast(k.model).kind = "mzn"
                            /\ \E i \in DOMAIN Ast(k.model).items :
                                    Ast(k.model).items[i].k = "other"}}

\* C30: when resolve_includes returns Ok every model of its list has a
\* parsed AST, and a query that assumes resolved includes (syntax_errors,
\* enumeration_names, lower_items, items_with_case, entity_counts) has been
\* evaluated by all_errors, all_warnings or run_hir_phase only when
\* resolve_includes returned Ok and only for a model of that list, so the
\* resolve_includes, cst and ast values it unwraps are Ok.
C30_ResolvedBeforeUse ==
    /\ result.tag = "Ok" => \A k \in DOMAIN result.models : Parses(result.models[k])
    /\ \A key \in Stored(evaluated) :
            key.query \in AssumeResolved =>
                /\ result.tag = "Ok"
                /\ key.model # NoPath =>
                        /\ key.model \in Range(result.models)
                        /\ Parses(key.model)

\* resolve_includes returned Err after a model had parsed, and all three
\* entry points have run
C30_Witness ==
    /\ result.tag = "Err"
    /\ models # <<>>
    /\ reported /\ warned /\ Called
    /\ Key("resolve_includes", NoPath, 0) \in evaluated.once

====
